---- MODULE Spec2Model ----
(***************************************************************************)
(* Model of the rclone bisync job orchestrator (src/src/runner.rs):        *)
(* run_job, its PID-stamped lock file (LockGuard), the per-pair recovery   *)
(* policy and the run log.                                                 *)
(*                                                                         *)
(* Several operating-system processes call run_job.  Every file-system     *)
(* call on the shared lock path is a step of its own, so that calls of     *)
(* different processes interleave as the kernel lets them.  The steps of   *)
(* one sync attempt (spawn, wait, write the log block) touch nothing that  *)
(* is shared and form one step.                                            *)
(*                                                                         *)
(* Text is a sequence of lines, a line a sequence of fragments.  A path or *)
(* remote is a sequence of characters.                                     *)
(***************************************************************************)
EXTENDS Integers, Sequences, FiniteSets, TLC

\* ------------------------------------------------------------------ bounds
\* processes that may call run_job
NProcs == 2
\* largest number of explicit pairs in a job configuration
MaxPairs == 2

Procs == 1..NProcs
\* the operating-system pid of process p: pids differ in their number of digits
PidOf(p) == IF p = 1 THEN 7 ELSE 4240 + p
Pids == {PidOf(p) : p \in Procs}
\* a pid that belongs to no live process (a holder that died long ago)
DeadPid == PidOf(NProcs) + 1
None == "none"

\* ------------------------------------------------------------ text helpers
\* str::trim on a sequence of characters
IsSpace(c) == c \in {" ", "\n", "\t"}

RECURSIVE TrimStart(_)
TrimStart(s) ==
    IF s # <<>> /\ IsSpace(Head(s)) THEN TrimStart(Tail(s)) ELSE s

RECURSIVE TrimEnd(_)
TrimEnd(s) ==
    IF s # <<>> /\ IsSpace(s[Len(s)])
    THEN TrimEnd(SubSeq(s, 1, Len(s) - 1)) ELSE s

Trim(s) == TrimEnd(TrimStart(s))

StartsWith(s, c) == s # <<>> /\ s[1] = c

Contains(s, c) == \E i \in 1..Len(s) : s[i] = c

\* ------------------------------------------------------- job configuration
SamplePair(i) ==
    IF i = 1 THEN [local |-> <<"d">>, remote |-> <<"d">>]
    ELSE [local |-> <<"/", "o">>, remote |-> <<"r", ":", "x">>]

\* values of an optional path of the configuration (rclone_config_path,
\* lock_file)
NoPath == [some |-> FALSE, val |-> <<>>]
SomePath(t) == [some |-> TRUE, val |-> t]

\* the lock path of a job that configures none
DefaultLockPath == <<"/tmp/rclone-sync.lock">>

\* a lock path a job may configure for itself
OwnLockPath == <<"/", "l">>

LockPaths == {DefaultLockPath, OwnLockPath}

\* run_job: the configured lock_file unless it is unset or blank; the paths
\* of the model carry no home prefix for expand_home to replace
lock_path(job) ==
    IF ~job.lock_file.some THEN DefaultLockPath
    ELSE IF Trim(job.lock_file.val) = <<>> THEN DefaultLockPath
    ELSE job.lock_file.val

JobConfig(lp, rm, n, ar, cl) ==
    [name |-> "job", local_path |-> lp, remote |-> rm,
     pairs |-> [i \in 1..n |-> SamplePair(i)],
     lock_file |-> NoPath, auto_resync |-> ar, clean_bisync_locks |-> cl]

\* configurations validation accepts
GoodConfigs ==
    { JobConfig(<<"/", "h">>, <<"g", ":">>, n, ar, TRUE) :
        n \in 0..MaxPairs, ar \in BOOLEAN }

\* configurations validation rejects
BadConfigs ==
    { JobConfig(<<>>, <<"g", ":">>, 0, TRUE, TRUE),
      JobConfig(<<" ">>, <<>>, 1, TRUE, FALSE) }

Configs == GoodConfigs \cup BadConfigs

\* validation that insists on both base values whatever the pairs say
validate_config_bases_only(cfg) ==
    Trim(cfg.local_path) # <<>> /\ Trim(cfg.remote) # <<>>

\* as validate_config, but with pairs only the local side is looked at
validate_config_local_side_only(cfg) ==
    LET base_local_ok == Trim(cfg.local_path) # <<>>
        base_remote_ok == Trim(cfg.remote) # <<>>
    IN  IF cfg.pairs = <<>>
        THEN base_local_ok /\ base_remote_ok
        ELSE base_local_ok \/
                  \A i \in 1..Len(cfg.pairs) :
                      LET local == Trim(cfg.pairs[i].local)
                      IN  ~(local = <<>> \/ ~StartsWith(local, "/"))

\* validate_config: TRUE when the job is accepted
validate_config(cfg) ==
    LET base_local_ok == Trim(cfg.local_path) # <<>>
        base_remote_ok == Trim(cfg.remote) # <<>>
    IN  IF cfg.pairs = <<>>
        THEN base_local_ok /\ base_remote_ok
        ELSE /\ base_local_ok \/
                  \A i \in 1..Len(cfg.pairs) :
                      LET local == Trim(cfg.pairs[i].local)
                      IN  ~(local = <<>> \/ ~StartsWith(local, "/"))
             /\ base_remote_ok \/
                  \A i \in 1..Len(cfg.pairs) :
                      LET remote == Trim(cfg.pairs[i].remote)
                      IN  ~(remote = <<>> \/ ~Contains(remote, ":"))

\* a pair list that always starts with the base pair
ResolvePairsWithBase(cfg) ==
    << [local |-> cfg.local_path, remote |-> cfg.remote] >> \o cfg.pairs

\* the pair list run_job iterates over
ResolvePairs(cfg) ==
    IF cfg.pairs = <<>>
    THEN << [local |-> cfg.local_path, remote |-> cfg.remote] >>
    ELSE cfg.pairs

\* ------------------------------------------------------ subprocess output
\* the phrase detect_prior_lock_file splits a line on
PriorLockMarker == "prior lock file found:"

\* str::to_lowercase on a fragment
ToLower(f) ==
    CASE f = "Must run --resync" -> "must run --resync"
      [] f = "BISYNC ABORTED" -> "bisync aborted"
      [] OTHER -> f

\* outputs (stdout, stderr) a sync subprocess may produce
OutPlain == [stdout |-> << <<"Bisync successful">> >>, stderr |-> <<>>]
OutLock ==
    [stdout |-> <<>>,
     stderr |-> << <<"NOTICE:", PriorLockMarker, "/c/a.lck">> >>]
OutResync ==
    [stdout |-> << <<"BISYNC ABORTED">> >>,
     stderr |-> << <<"ERROR :", "Must run --resync">> >>]
OutBoth ==
    [stdout |-> <<>>,
     stderr |-> << <<"NOTICE:", PriorLockMarker, "/c/a.lck">>,
                   <<"ERROR :", "cannot find prior path1 or path2 listings">> >>]

\* output.status.code().unwrap_or(-1)
ExitCodeOf(st) == IF st.exited THEN st.code ELSE -1

Exited(code) == [exited |-> TRUE, code |-> code]
Signaled == [exited |-> FALSE, code |-> 0]

\* what one call of cmd.output() may end with: the subprocess ran and ended
\* with status st and output out, or it could not be started
Outcome(st, out) == [started |-> TRUE, st |-> st, out |-> out]
SpawnFailed == [started |-> FALSE, st |-> Signaled, out |-> OutPlain]

\* a tool that succeeds or fails without any recovery signal
PlainOutcomes == {Outcome(Exited(0), OutPlain), Outcome(Exited(1), OutPlain)}

AllOutcomes ==
    PlainOutcomes \cup
    {Outcome(Exited(0), OutBoth), Outcome(Exited(1), OutLock),
     Outcome(Exited(1), OutResync), Outcome(Exited(1), OutBoth),
     Outcome(Signaled, OutPlain), SpawnFailed}

\* needs_resync: a recovery-signal phrase anywhere in stdout or stderr
RecoveryPhrases ==
    {"cannot find prior path1 or path2 listings", "must run --resync",
     "bisync aborted"}

LineContains(line, phrase) ==
    \E i \in 1..Len(line) : ToLower(line[i]) = phrase

needs_resync(stdout, stderr) ==
    LET combined == stdout \o stderr
    IN  \E k \in 1..Len(combined) :
            \E ph \in RecoveryPhrases : LineContains(combined[k], ph)

\* the candidate a line yields: the word after the first marker, or None
LineCandidate(line) ==
    IF \E i \in 1..Len(line) : line[i] = PriorLockMarker
    THEN LET i == CHOOSE i \in 1..Len(line) :
                    /\ line[i] = PriorLockMarker
                    /\ \A j \in 1..(i - 1) : line[j] # PriorLockMarker
         IN  IF i < Len(line) /\ line[i + 1] # PriorLockMarker
             THEN line[i + 1] ELSE None
    ELSE None

\* detect_prior_lock_file: the first line of stdout, then stderr, naming a path
detect_prior_lock_file(stdout, stderr) ==
    LET lines == stdout \o stderr
        hits == {k \in 1..Len(lines) : LineCandidate(lines[k]) # None}
    IN  IF hits = {} THEN None
        ELSE LineCandidate(lines[CHOOSE k \in hits : \A m \in hits : k <= m])

\* --------------------------------------------- the tool's internal lock file
\* what remove_stale_lock_file finds at the reported path
LckStates ==
    {[exists |-> FALSE, pid |-> None, old |-> FALSE]} \cup
    [exists : {TRUE}, pid : {None, "alive", "dead"}, old : BOOLEAN]

\* the reported file judged by the rule of the pre-run cleaner
remove_stale_lock_file_as_cleaner(lck, bisync_running) ==
    IF ~lck.exists THEN FALSE
    ELSE IF ~bisync_running THEN TRUE
    ELSE IF lck.pid # None THEN lck.pid = "dead"
    ELSE lck.old

\* remove_stale_lock_file: TRUE when the file was judged stale and removed
remove_stale_lock_file(lck, bisync_running) ==
    IF ~lck.exists THEN FALSE
    ELSE IF lck.pid # None THEN lck.pid = "dead"
    ELSE ~bisync_running /\ lck.old

\* most files in the sync tool's lock directory
MaxFiles == 2

\* a file of the lock directory: whether its name ends in .lck, the pid its
\* first line records, whether it was modified more than 60 minutes ago
DirFiles == [lck : BOOLEAN, pid : {None, "alive", "dead"}, old : BOOLEAN]

Dirs == {d \in SUBSET DirFiles : Cardinality(d) <= MaxFiles}

\* what the host answers: HOME is set, the lock directory is a directory,
\* fs::read_dir lists it, pgrep finds a sync-tool process, fs::remove_file
\* succeeds
CleanEnvs ==
    [home : BOOLEAN, is_dir : BOOLEAN, listed : BOOLEAN, running : BOOLEAN,
     remove_ok : BOOLEAN]

\* the files fs::remove_file is called on and succeeds for
Unlink(files, e) == IF e.remove_ok THEN files ELSE {}

\* a cleaner that does not look at the file name's suffix
clean_bisync_locks_any_suffix(dir, e) ==
    IF ~e.home THEN [ok |-> FALSE, removed |-> {}]
    ELSE IF ~e.is_dir THEN [ok |-> TRUE, removed |-> {}]
    ELSE IF ~e.listed THEN [ok |-> FALSE, removed |-> {}]
    ELSE IF ~e.running THEN [ok |-> TRUE, removed |-> Unlink(dir, e)]
    ELSE [ok |-> TRUE,
          removed |-> Unlink({f \in dir :
                                IF f.pid # None THEN f.pid = "dead"
                                ELSE f.old}, e)]

\* clean_bisync_locks: whether it returned Ok, and the files it removed
clean_bisync_locks(dir, e) ==
    IF ~e.home THEN [ok |-> FALSE, removed |-> {}]
    ELSE IF ~e.is_dir THEN [ok |-> TRUE, removed |-> {}]
    ELSE IF ~e.listed THEN [ok |-> FALSE, removed |-> {}]
    ELSE IF ~e.running
    THEN [ok |-> TRUE, removed |-> Unlink({f \in dir : f.lck}, e)]
    ELSE [ok |-> TRUE,
          removed |-> Unlink({f \in dir :
                                /\ f.lck
                                /\ IF f.pid # None THEN f.pid = "dead"
                                   ELSE f.old}, e)]

\* run_job's pre-clean: its result is dropped, the removed files stay removed
preclean(enabled, dir, e) ==
    IF enabled THEN clean_bisync_locks(dir, e).removed ELSE {}

\* a step of the cleaner failed: HOME is not set, the directory cannot be
\* listed, or a delete fails
CleanFailed(e) == ~e.home \/ (e.is_dir /\ (~e.listed \/ ~e.remove_ok))

\* remove_stale_lock_file with its delete: what it returns, and whether the
\* file is gone afterwards
stale_lock_removal(lck, e) ==
    LET reported == remove_stale_lock_file(lck, e.running)
    IN  [reported |-> reported, gone |-> reported /\ e.remove_ok]

\* ------------------------------------------------------ lock file content
Digits == <<"0", "1", "2", "3", "4", "5", "6", "7", "8", "9">>

IsDigit(c) == \E d \in 1..Len(Digits) : Digits[d] = c

DigitValue(c) == (CHOOSE d \in 1..Len(Digits) : Digits[d] = c) - 1

\* format!("{pid}"): the decimal digits of n
RECURSIVE FormatU32(_)
FormatU32(n) ==
    IF n < Len(Digits) THEN <<Digits[n + 1]>>
    ELSE FormatU32(n \div Len(Digits)) \o <<Digits[(n % Len(Digits)) + 1]>>

RECURSIVE DigitsValue(_)
DigitsValue(s) ==
    IF s = <<>> THEN 0
    ELSE DigitsValue(SubSeq(s, 1, Len(s) - 1)) * Len(Digits)
            + DigitValue(s[Len(s)])

\* str::parse::<u32> of already trimmed text
ParseU32(s) ==
    IF s # <<>> /\ \A i \in 1..Len(s) : IsDigit(s[i])
    THEN [ok |-> TRUE, val |-> DigitsValue(s)]
    ELSE [ok |-> FALSE, val |-> 0]

\* what writeln!(file, "{pid}") sends to the file
PidLine(pid) == FormatU32(pid) \o <<"\n">>

\* a write of w at offset 0 of a file holding content
WriteAtStart(content, w) == w \o SubSeq(content, Len(w) + 1, Len(content))

NoFile == [exists |-> FALSE, content |-> <<>>]
FileWith(text) == [exists |-> TRUE, content |-> text]

\* ------------------------------------------------------------- run results
NoResult ==
    [kind |-> "none", exit_code |-> 0, stdout |-> <<>>, stderr |-> <<>>,
     log_file |-> None, duration_secs |-> None, error |-> None]

\* Err(e) returned by run_job
ErrResult(e) == [NoResult EXCEPT !.kind = "Err", !.error = e]

\* as AlreadyRunningResult, but the skipped run reported as a failure
AlreadyRunningAsFailure(pid) ==
    [NoResult EXCEPT
        !.kind = "Ok", !.exit_code = 1,
        !.stderr = << <<"Sync already running (PID: ">> \o FormatU32(pid)
                        \o <<"). Skipping this run.">> >>]

\* the RunResult returned when another live process holds the lock
AlreadyRunningResult(pid) ==
    [NoResult EXCEPT
        !.kind = "Ok", !.exit_code = 0, !.stdout = <<>>,
        !.stderr = << <<"Sync already running (PID: ">> \o FormatU32(pid)
                        \o <<"). Skipping this run.">> >>,
        !.log_file = None, !.duration_secs = None]

\* the path create_log_file returns
LogPath == "sync.log"

\* the RunResult of a run that executed its pairs
FinishedResult(r) ==
    [NoResult EXCEPT
        !.kind = "Ok", !.exit_code = r.final_exit,
        !.stdout = r.combined_stdout, !.stderr = r.combined_stderr,
        !.log_file = LogPath, !.duration_secs = "some"]

\* the locals of run_job before the pair loop
FreshRun ==
    [idx |-> 1, exit_code |-> 0, last_stdout |-> <<>>, last_stderr |-> <<>>,
     combined_stdout |-> <<>>, combined_stderr |-> <<>>, final_exit |-> 0,
     lock_removed |-> None, precleaned |-> FALSE,
     preclean_failed |-> FALSE, unlink_failed |-> FALSE]
\* lock_removed is what remove_stale_lock_file returned for the current pair:
\* None while it was not called, "removed" for true, "kept" for false
\* precleaned is TRUE once clean_bisync_locks was called in this run
\* preclean_failed and unlink_failed are kept while probe is "housekeeping":
\* clean_bisync_locks failed in this run, and the delete inside the latest
\* remove_stale_lock_file call of the current pair failed

\* no pure function has been called
NoCall == [fn |-> None, arg |-> <<>>, ret |-> <<>>]

NoExisting == [read |-> FALSE, content |-> <<>>, alive |-> FALSE]

\* ------------------------------------------------------- the status record
\* an absent and a present optional number or text
NoNumber == [some |-> FALSE, val |-> 0]
SomeNumber(n) == [some |-> TRUE, val |-> n]
NoText == [some |-> FALSE, val |-> <<>>]
SomeText(t) == [some |-> TRUE, val |-> t]

\* SyncState::default()
DefaultState ==
    [last_run |-> NoNumber, last_success |-> NoNumber, last_error |-> NoText,
     log_preview |-> <<>>, last_exit_code |-> NoNumber,
     last_changed_count |-> NoNumber, last_log_file |-> NoText,
     last_duration_secs |-> NoNumber]

\* what run_job_and_capture gave: nothing yet, an error, or a ScriptResult
NoOutcome ==
    [kind |-> None, timestamp |-> 0, exit_code |-> 0, stdout |-> <<>>,
     stderr |-> <<>>, log_file |-> NoText, duration_secs |-> NoNumber]

\* what the Sync now task hands to SyncFinished: Ok(state) or Err(err)
NoRes == [ok |-> TRUE, state |-> DefaultState, err |-> <<>>]

\* the applet before Sync now: not syncing, no task, the state it shows, and
\* the outcome of the run its task made; inflight counts the Sync now tasks
\* spawned and not yet ended, and pos is "detect_remove" while the handler
\* under way is inside detect_running, between its read and its delete
IdleApplet ==
    [syncing |-> FALSE, manual_syncing |-> FALSE, task |-> "none",
     inflight |-> 0, pos |-> "idle", state |-> DefaultState,
     res |-> NoRes, ran |-> NoOutcome]

\* the run that finished last: who started it, its outcome and the
\* notification sent for it; applied is the result run_sync applied and
\* stored last, clock counts the runs started, and exited is the exit status
\* of the process when the run command made the run
NothingNotified ==
    [via |-> None, outcome |-> NoOutcome, sent |-> None, clock |-> 0,
     applied |-> NoOutcome, exited |-> 0]

\* --------------------------------------------------------- the log directory
\* jobs with lock files of their own that keep their logs in one directory
LogJobs == {"a", "b"}

\* most runs of one job
MaxLogRuns == 2

\* the seconds of the clock, and the steps it makes within one second
MaxSeconds == 2
MaxSub == 1

\* timestamp.format("%Y%m%d_%H%M%S"): the part of a second is dropped
FormatSeconds(ts) == ts.sec

\* a log file: its content, and every run that created it or wrote to it
NoLogFile == [exists |-> FALSE, content |-> <<>>, users |-> {}]

\* a job between two runs: n counts its runs, file is the name of the log
\* its run has open and offset the position of the handle
IdleLogRun == [pc |-> "idle", n |-> 0, file |-> 0, offset |-> 0]

NoLogDir ==
    [now |-> [sec |-> 1, sub |-> 0],
     files |-> [s \in 1..MaxSeconds |-> NoLogFile],
     runs |-> [j \in LogJobs |-> IdleLogRun]]

\* a part of a log: the header, an attempt's block or the footer of run n of
\* a job, or a gap left by a write behind the end of the file
LogPart(j, n, what) == [job |-> j, n |-> n, what |-> what]
Gap == LogPart(None, 0, "gap")

\* a write of one part at offset into a file that may be shorter or longer
WriteAt(content, offset, part) ==
    [i \in 1..(IF offset + 1 > Len(content) THEN offset + 1 ELSE Len(content))
        |-> IF i = offset + 1 THEN part
            ELSE IF i <= Len(content) THEN content[i]
            ELSE Gap]

\* ------------------------------------------------------------------- state
VARIABLES
    cfg,        \* cfg[p]: the job configuration process p runs
    pc,         \* pc[p]: where process p stands in run_job
    lockFile,   \* the file at each lock path
    existing,   \* existing[p]: what LockGuard::acquire read from the lock path
    handle,     \* handle[p]: p's open lock file: "none", "linked", "unlinked"
    guard,      \* guard[p]: p's LockGuard: "none", "held", "dropped"
    run,        \* run[p]: the locals of p's run_job call
    log,        \* log[p]: the log file of p's run
    spawns,     \* spawns[p]: the sync subprocesses p's run has started
    result,     \* result[p]: what p's last run_job call returned
    tool,       \* the outcomes the sync tool can have on this host
    disk,       \* "failing" when file creation and writes can fail, else "ok"
    probe,      \* "on" when the output of every subprocess is kept in trace,
                \* "housekeeping" when the failures of the lock cleaning
                \* are kept in run
    trace,      \* trace[p]: what each subprocess of p's run ended with
    call,       \* the latest call of one of the pure functions, with its result
    status,     \* the SyncState kept in the job's status file
    applet,     \* the applet's sync flag and the result of its sync task
    notified,   \* the latest finished run and the notification sent for it
    logdir      \* the clock, the files of the log directory and their runs

vars ==
    <<cfg, pc, lockFile, existing, handle, guard, run, log, spawns, result,
      tool, disk, probe, trace, call, status, applet, notified, logdir>>

\* what no step of run_job changes
env == <<call, probe, tool, disk, status, applet, notified, logdir>>

\* no run has been recorded, the applet is idle, nothing was notified
InitStatus ==
    /\ status = DefaultState
    /\ applet = IdleApplet
    /\ notified = NothingNotified
    /\ logdir = NoLogDir

\* what is kept about a housekeeping step only while probe is "housekeeping"
Probed(b) == probe = "housekeeping" /\ b

\* the results a file creation or a write can have: TRUE is success
IoResults == IF disk = "failing" THEN BOOLEAN ELSE {TRUE}

NoLog == [created |-> FALSE, entries |-> <<>>]

\* as pid_alive, but every pid some process ever had counts as alive
pid_alive_ever(pid) == \E q \in Procs : PidOf(q) = pid

\* /proc/<pid> exists
pid_alive(pid) == \E q \in Procs : PidOf(q) = pid /\ pc[q] # "dead"

\* positions between a successful LockGuard::acquire and the guard's drop
HoldingPcs == {"create_log", "pair", "cleanup", "resync", "pair_end", "footer", "drop"}
AcquirePcs == {"acquire", "acq_remove", "acq_create", "acq_write"}

\* ------------------------------------------------------------------- Init
\* the job a process runs when several processes race for the lock
RaceConfig == JobConfig(<<"/", "h">>, <<"g", ":">>, 0, TRUE, TRUE)

\* lock files a previous holder may have left behind
StaleLockFiles ==
    {NoFile, FileWith(<<"x", "\n">>), FileWith(PidLine(DeadPid))}

\* no lock file at any path
NoLocks == [path \in LockPaths |-> NoFile]

\* what the lock paths hold at the start: the default path may hold a file
\* left behind
StaleLocks ==
    {[NoLocks EXCEPT ![DefaultLockPath] = f] : f \in StaleLockFiles}

\* one process runs any job against any tool on a disk that may fail; no
\* other process exists
InitSolo ==
    /\ pc = [p \in Procs |-> IF p = 1 THEN "idle" ELSE "dead"]
    /\ cfg \in {c \in [Procs -> Configs] :
                    \A p \in Procs : p # 1 => c[p] = RaceConfig}
    /\ tool = AllOutcomes
    /\ disk = "failing"

\* every process runs the same single-pair job against a plain tool on a
\* disk that does not fail
InitRace ==
    /\ pc = [p \in Procs |-> "idle"]
    /\ cfg = [p \in Procs |-> RaceConfig]
    /\ tool = PlainOutcomes
    /\ disk = "ok"

Init ==
    /\ InitSolo \/ InitRace
    /\ lockFile \in StaleLocks
    /\ existing = [p \in Procs |-> NoExisting]
    /\ handle = [p \in Procs |-> "none"]
    /\ guard = [p \in Procs |-> "none"]
    /\ run = [p \in Procs |-> FreshRun]
    /\ log = [p \in Procs |-> NoLog]
    /\ spawns = [p \in Procs |-> <<>>]
    /\ result = [p \in Procs |-> NoResult]
    /\ trace = [p \in Procs |-> <<>>]
    /\ probe = "off"
    /\ call = NoCall
    /\ InitStatus

\* ------------------------------------------------------------ the lock file
\* fs::remove_file on a lock path: every handle open on it loses its link
Unlinked(path) ==
    [q \in Procs |-> IF handle[q] = "linked" /\ lock_path(cfg[q]) = path
                     THEN "unlinked" ELSE handle[q]]

\* as run_job, but the stale-lock pre-clean is left to a later step
run_job_without_preclean(p) ==
    /\ pc[p] \in {"idle", "returned"}
    /\ existing' = [existing EXCEPT ![p] = NoExisting]
    /\ guard' = [guard EXCEPT ![p] = "none"]
    /\ run' = [run EXCEPT ![p] = FreshRun]
    /\ log' = [log EXCEPT ![p] = NoLog]
    /\ spawns' = [spawns EXCEPT ![p] = <<>>]
    /\ trace' = [trace EXCEPT ![p] = <<>>]
    /\ IF validate_config(cfg[p])
       THEN /\ pc' = [pc EXCEPT ![p] = "acquire"]
            /\ result' = [result EXCEPT ![p] = NoResult]
       ELSE /\ pc' = [pc EXCEPT ![p] = "returned"]
            /\ result' = [result EXCEPT ![p] = ErrResult("config")]
    /\ UNCHANGED <<env, cfg, lockFile, handle>>

\* as run_job, but a failure of the stale-lock pre-clean is returned
run_job_failing_on_preclean(p) ==
    /\ pc[p] \in {"idle", "returned"}
    /\ existing' = [existing EXCEPT ![p] = NoExisting]
    /\ guard' = [guard EXCEPT ![p] = "none"]
    /\ log' = [log EXCEPT ![p] = NoLog]
    /\ spawns' = [spawns EXCEPT ![p] = <<>>]
    /\ trace' = [trace EXCEPT ![p] = <<>>]
    /\ LET cleaning == validate_config(cfg[p]) /\ cfg[p].clean_bisync_locks
       IN  \E failed \in {Probed(cleaning /\ CleanFailed(e)) : e \in CleanEnvs} :
             /\ run' = [run EXCEPT ![p] =
                    [FreshRun EXCEPT !.precleaned = cleaning,
                                     !.preclean_failed = failed]]
             /\ IF validate_config(cfg[p]) /\ ~failed
                THEN /\ pc' = [pc EXCEPT ![p] = "acquire"]
                     /\ result' = [result EXCEPT ![p] = NoResult]
                ELSE /\ pc' = [pc EXCEPT ![p] = "returned"]
                     /\ result' = [result EXCEPT ![p] = ErrResult("config")]
    /\ UNCHANGED <<env, cfg, lockFile, handle>>

\* as run_job, but the stale-lock pre-clean runs before the validation
run_job_cleaning_first(p) ==
    /\ pc[p] \in {"idle", "returned"}
    /\ existing' = [existing EXCEPT ![p] = NoExisting]
    /\ guard' = [guard EXCEPT ![p] = "none"]
    /\ run' = [run EXCEPT ![p] =
            [FreshRun EXCEPT !.precleaned = cfg[p].clean_bisync_locks]]
    /\ log' = [log EXCEPT ![p] = NoLog]
    /\ spawns' = [spawns EXCEPT ![p] = <<>>]
    /\ trace' = [trace EXCEPT ![p] = <<>>]
    /\ IF validate_config(cfg[p])
       THEN /\ pc' = [pc EXCEPT ![p] = "acquire"]
            /\ result' = [result EXCEPT ![p] = NoResult]
       ELSE /\ pc' = [pc EXCEPT ![p] = "returned"]
            /\ result' = [result EXCEPT ![p] = ErrResult("config")]
    /\ UNCHANGED <<env, cfg, lockFile, handle>>

\* run_job up to the call of LockGuard::acquire: the validation, then the
\* stale-lock pre-clean when the job asks for it
run_job(p) ==
    /\ pc[p] \in {"idle", "returned"}
    /\ existing' = [existing EXCEPT ![p] = NoExisting]
    /\ guard' = [guard EXCEPT ![p] = "none"]
    /\ LET cleaning == validate_config(cfg[p]) /\ cfg[p].clean_bisync_locks
       IN  \E failed \in {Probed(cleaning /\ CleanFailed(e)) : e \in CleanEnvs} :
             run' = [run EXCEPT ![p] =
                [FreshRun EXCEPT !.precleaned = cleaning,
                                 !.preclean_failed = failed]]
    /\ log' = [log EXCEPT ![p] = NoLog]
    /\ spawns' = [spawns EXCEPT ![p] = <<>>]
    /\ trace' = [trace EXCEPT ![p] = <<>>]
    /\ IF validate_config(cfg[p])
       THEN /\ pc' = [pc EXCEPT ![p] = "acquire"]
            /\ result' = [result EXCEPT ![p] = NoResult]
       ELSE /\ pc' = [pc EXCEPT ![p] = "returned"]
            /\ result' = [result EXCEPT ![p] = ErrResult("config")]
    /\ UNCHANGED <<env, cfg, lockFile, handle>>

\* LockGuard::acquire: fs::read_to_string, parse, pid_alive
acquire_read(p) ==
    /\ pc[p] = "acquire"
    /\ IF ~lockFile[lock_path(cfg[p])].exists
       THEN /\ pc' = [pc EXCEPT ![p] = "acq_create"]
            /\ UNCHANGED <<existing, result>>
       ELSE LET content == lockFile[lock_path(cfg[p])].content
                pid == ParseU32(Trim(content))
                live == pid.ok /\ pid_alive(pid.val)
            IN  /\ existing' = [existing EXCEPT ![p] =
                        [read |-> TRUE, content |-> content,
                         alive |-> live]]
                /\ IF live
                   THEN /\ result' = [result EXCEPT ![p] =
                                AlreadyRunningResult(pid.val)]
                        /\ pc' = [pc EXCEPT ![p] = "returned"]
                   ELSE /\ pc' = [pc EXCEPT ![p] = "acq_remove"]
                        /\ UNCHANGED result
    /\ UNCHANGED <<env, trace, cfg, lockFile, handle, guard, run, log, spawns>>

\* LockGuard::acquire: fs::remove_file of the file judged abandoned
acquire_remove(p) ==
    /\ pc[p] = "acq_remove"
    /\ lockFile' = [lockFile EXCEPT ![lock_path(cfg[p])] = NoFile]
    /\ handle' = Unlinked(lock_path(cfg[p]))
    /\ pc' = [pc EXCEPT ![p] = "acq_create"]
    /\ UNCHANGED <<env, trace, cfg, existing, guard, run, log, spawns, result>>

\* LockGuard::acquire: fs::File::create truncates or creates the file
acquire_create(p) ==
    /\ pc[p] = "acq_create"
    /\ \E ok \in IoResults :
        IF ok
        THEN /\ lockFile' = [lockFile EXCEPT
                                ![lock_path(cfg[p])] = FileWith(<<>>)]
             /\ handle' = [handle EXCEPT ![p] = "linked"]
             /\ pc' = [pc EXCEPT ![p] = "acq_write"]
             /\ UNCHANGED result
        ELSE /\ result' = [result EXCEPT ![p] = ErrResult("lock")]
             /\ pc' = [pc EXCEPT ![p] = "returned"]
             /\ UNCHANGED <<lockFile, handle>>
    /\ UNCHANGED <<env, trace, cfg, existing, guard, run, log, spawns>>

\* LockGuard::acquire: writeln!(file, "{pid}") and the return of the guard
acquire_write(p) ==
    /\ pc[p] = "acq_write"
    /\ handle' = [handle EXCEPT ![p] = "none"]
    /\ \E ok \in IoResults :
        IF ok
        THEN /\ lockFile' =
                    IF handle[p] = "linked"
                    THEN [lockFile EXCEPT ![lock_path(cfg[p])] =
                            FileWith(WriteAtStart(@.content,
                                                  PidLine(PidOf(p))))]
                    ELSE lockFile
             /\ guard' = [guard EXCEPT ![p] = "held"]
             /\ pc' = [pc EXCEPT ![p] = "create_log"]
             /\ UNCHANGED result
        ELSE /\ result' = [result EXCEPT ![p] = ErrResult("lock")]
             /\ pc' = [pc EXCEPT ![p] = "returned"]
             /\ UNCHANGED <<lockFile, guard>>
    /\ existing' = [existing EXCEPT ![p] = NoExisting]
    /\ UNCHANGED <<env, trace, cfg, run, log, spawns>>

\* Drop for LockGuard: fs::remove_file of the lock path, then run_job returns
drop_guard(p) ==
    /\ pc[p] = "drop"
    /\ lockFile' = [lockFile EXCEPT ![lock_path(cfg[p])] = NoFile]
    /\ handle' = Unlinked(lock_path(cfg[p]))
    /\ guard' = [guard EXCEPT ![p] = "dropped"]
    /\ pc' = [pc EXCEPT ![p] = "returned"]
    /\ UNCHANGED <<env, trace, cfg, existing, run, log, spawns, result>>

\* the process is terminated from outside in the middle of run_job: its
\* memory and open files are gone, no destructor runs, the lock file stays
Kill(p) ==
    /\ pc[p] \notin {"idle", "returned", "dead"}
    /\ pc' = [pc EXCEPT ![p] = "dead"]
    /\ handle' = [handle EXCEPT ![p] = "none"]
    /\ existing' = [existing EXCEPT ![p] = NoExisting]
    /\ guard' = [guard EXCEPT ![p] = "none"]
    /\ run' = [run EXCEPT ![p] = FreshRun]
    /\ log' = [log EXCEPT ![p] = NoLog]
    /\ spawns' = [spawns EXCEPT ![p] = <<>>]
    /\ trace' = [trace EXCEPT ![p] = <<>>]
    /\ result' = [result EXCEPT ![p] = NoResult]
    /\ UNCHANGED <<env, cfg, lockFile>>

\* ------------------------------------------------------------ the pair loop
Pairs(p) == ResolvePairs(cfg[p])

LogEntry(t, idx, label, exit) ==
    [t |-> t, idx |-> idx, label |-> label, exit |-> exit]

\* as Bail, but the error is noted and the pair loop goes on
BailAndContinue(p, e) ==
    /\ result' = [result EXCEPT ![p] = ErrResult(e)]
    /\ pc' = [pc EXCEPT ![p] = "pair_end"]

\* as Bail, but run_job returns without the guard being dropped
BailLeakingGuard(p, e) ==
    /\ result' = [result EXCEPT ![p] = ErrResult(e)]
    /\ pc' = [pc EXCEPT ![p] = "returned"]

\* an error propagated with `?` while the guard is alive: the guard is dropped
Bail(p, e) ==
    /\ result' = [result EXCEPT ![p] = ErrResult(e)]
    /\ pc' = [pc EXCEPT ![p] = "drop"]

\* create_log_file and the run header
create_log(p) ==
    /\ pc[p] = "create_log"
    /\ \E io \in {"ok"} \cup
                 (IF disk = "failing" THEN {"create_failed", "write_failed"}
                  ELSE {}) :
        CASE io = "create_failed" ->
                /\ Bail(p, "io")
                /\ UNCHANGED log
          [] io = "write_failed" ->
                /\ Bail(p, "io")
                /\ log' = [log EXCEPT ![p] = [created |-> TRUE, entries |-> <<>>]]
          [] io = "ok" ->
                /\ log' = [log EXCEPT ![p] =
                        [created |-> TRUE,
                         entries |-> <<LogEntry("header", 0, "", 0)>>]]
                /\ pc' = [pc EXCEPT ![p] = "pair"]
                /\ UNCHANGED result
    /\ UNCHANGED <<env, trace, cfg, lockFile, existing, handle, guard, run, spawns>>

\* as AttemptResult, but the output of the earlier attempt is kept
AttemptResultKeepingOutput(r, code, out) == [r EXCEPT !.exit_code = code]

\* (exit_code, last_stdout, last_stderr) after an attempt that ended with
\* code and out
AttemptResult(r, code, out) ==
    [r EXCEPT !.exit_code = code,
              !.last_stdout = out.stdout,
              !.last_stderr = out.stderr]

\* the closure `attempt` followed by write_log_chunk: the subprocess is not
\* started, or it runs to its end and its block is written to the log
\* r is the run's locals and entries the log when the attempt starts
Attempt(p, r, entries, label, extra, next) ==
    \/ /\ SpawnFailed \in tool
       /\ Bail(p, "spawn")
       /\ run' = [run EXCEPT ![p] = r]
       /\ log' = [log EXCEPT ![p].entries = entries]
       /\ UNCHANGED <<spawns, trace>>
    \/ \E o \in tool \ {SpawnFailed}, wrote \in IoResults :
        LET code == ExitCodeOf(o.st)
            out == o.out
        IN  /\ spawns' = [spawns EXCEPT ![p] =
                    Append(@, [idx |-> r.idx, extra |-> extra, st |-> o.st])]
            /\ trace' = IF probe = "on"
                        THEN [trace EXCEPT ![p] =
                                Append(@, [idx |-> r.idx, label |-> label,
                                           extra |-> extra, code |-> code,
                                           out |-> out])]
                        ELSE trace
            /\ IF wrote
               THEN /\ run' = [run EXCEPT ![p] = AttemptResult(r, code, out)]
                    /\ log' = [log EXCEPT ![p].entries =
                            Append(entries,
                                   LogEntry("attempt", r.idx, label, code))]
                    /\ pc' = [pc EXCEPT ![p] = next]
                    /\ UNCHANGED result
               ELSE /\ Bail(p, "io")
                    /\ run' = [run EXCEPT ![p] = r]
                    /\ log' = [log EXCEPT ![p].entries = entries]

\* the pair's label line and its first attempt
attempt_normal(p) ==
    /\ pc[p] = "pair"
    /\ \/ /\ disk = "failing"
          /\ Bail(p, "io")
          /\ UNCHANGED <<run, log, spawns, trace>>
       \/ Attempt(p, [run[p] EXCEPT !.lock_removed = None,
                                    !.unlink_failed = FALSE],
                  Append(log[p].entries, LogEntry("pair", run[p].idx, "", 0)),
                  "attempt=normal", <<>>, "cleanup")
    /\ UNCHANGED <<env, cfg, lockFile, existing, handle, guard>>

\* as WantsLockCleanup, but without looking at the exit code
WantsLockCleanupAnyExit(r) ==
    detect_prior_lock_file(r.last_stdout, r.last_stderr) # None

\* the first attempt failed and its output names a prior lock file
WantsLockCleanup(r) ==
    /\ r.exit_code # 0
    /\ detect_prior_lock_file(r.last_stdout, r.last_stderr) # None

\* what remove_stale_lock_file can end with
Removals == {stale_lock_removal(lck, e) : lck \in LckStates, e \in CleanEnvs}

\* the calls that returned true
ReportedRemovals == {removal \in Removals : removal.reported}

\* as retry_after_lock_cleanup, but the retry leaves the first attempt's
\* output in place for the resync check
retry_after_lock_cleanup_keeping_first_output(p) ==
    /\ pc[p] = "cleanup"
    /\ WantsLockCleanup(run[p])
    /\ \E failed \in {Probed(~removal.gone) : removal \in ReportedRemovals} :
        \/ /\ SpawnFailed \in tool
           /\ Bail(p, "spawn")
           /\ run' = [run EXCEPT ![p].lock_removed = "removed",
                                 ![p].unlink_failed = failed]
           /\ UNCHANGED <<log, spawns, trace>>
        \/ \E o \in tool \ {SpawnFailed}, wrote \in IoResults :
            LET code == ExitCodeOf(o.st)
                label == "attempt=retry_after_lock_cleanup"
            IN  /\ spawns' = [spawns EXCEPT ![p] =
                        Append(@, [idx |-> run[p].idx, extra |-> <<>>,
                                   st |-> o.st])]
                /\ trace' = IF probe = "on"
                            THEN [trace EXCEPT ![p] =
                                    Append(@, [idx |-> run[p].idx,
                                               label |-> label,
                                               extra |-> <<>>, code |-> code,
                                               out |-> o.out])]
                            ELSE trace
                /\ IF wrote
                   THEN /\ run' = [run EXCEPT ![p].lock_removed = "removed",
                                              ![p].unlink_failed = failed,
                                              ![p].exit_code = code]
                        /\ log' = [log EXCEPT ![p].entries =
                                Append(@, LogEntry("attempt", run[p].idx,
                                                   label, code))]
                        /\ pc' = [pc EXCEPT ![p] = "resync"]
                        /\ UNCHANGED result
                   ELSE /\ Bail(p, "io")
                        /\ run' = [run EXCEPT ![p].lock_removed = "removed",
                                              ![p].unlink_failed = failed]
                        /\ UNCHANGED log
    /\ UNCHANGED <<env, cfg, lockFile, existing, handle, guard>>

\* remove_stale_lock_file returned true, whether or not its delete went
\* through: the attempt is run again
retry_after_lock_cleanup(p) ==
    /\ pc[p] = "cleanup"
    /\ WantsLockCleanup(run[p])
    /\ \E failed \in {Probed(~removal.gone) : removal \in ReportedRemovals} :
        Attempt(p, [run[p] EXCEPT !.lock_removed = "removed",
                                  !.unlink_failed = failed],
                log[p].entries,
                "attempt=retry_after_lock_cleanup", <<>>, "resync")
    /\ UNCHANGED <<env, cfg, lockFile, existing, handle, guard>>

\* no lock file was reported, or remove_stale_lock_file removed nothing
skip_lock_cleanup(p) ==
    /\ pc[p] = "cleanup"
    /\ \/ /\ ~WantsLockCleanup(run[p])
          /\ UNCHANGED run
       \/ /\ WantsLockCleanup(run[p])
          /\ \E removal \in Removals : ~removal.reported
          /\ run' = [run EXCEPT ![p].lock_removed = "kept"]
    /\ pc' = [pc EXCEPT ![p] = "resync"]
    /\ UNCHANGED <<env, trace, cfg, lockFile, existing, handle, guard, log,
                   spawns, result>>

\* as WantsResync, but without looking at the exit code
WantsResyncAnyExit(r) == needs_resync(r.last_stdout, r.last_stderr)

\* the latest attempt failed and its output asks for a resync
WantsResync(r) ==
    /\ r.exit_code # 0
    /\ needs_resync(r.last_stdout, r.last_stderr)

\* as resync_recovery, but the attempt carries no extra flag
resync_recovery_without_flag(p) ==
    /\ pc[p] = "resync"
    /\ WantsResync(run[p])
    /\ cfg[p].auto_resync
    /\ Attempt(p, run[p], log[p].entries, "attempt=resync_recovery",
               <<>>, "pair_end")
    /\ UNCHANGED <<env, cfg, lockFile, existing, handle, guard>>

\* as resync_recovery, but the resync check is taken again after the attempt
resync_recovery_again(p) ==
    /\ pc[p] = "resync"
    /\ WantsResync(run[p])
    /\ cfg[p].auto_resync
    /\ Attempt(p, run[p], log[p].entries, "attempt=resync_recovery",
               <<"--resync">>, "resync")
    /\ UNCHANGED <<env, cfg, lockFile, existing, handle, guard>>

\* the attempt run again with --resync
resync_recovery(p) ==
    /\ pc[p] = "resync"
    /\ WantsResync(run[p])
    /\ cfg[p].auto_resync
    /\ Attempt(p, run[p], log[p].entries, "attempt=resync_recovery",
               <<"--resync">>, "pair_end")
    /\ UNCHANGED <<env, cfg, lockFile, existing, handle, guard>>

\* auto_resync is off: a note in the log instead of the resync attempt
resync_note(p) ==
    /\ pc[p] = "resync"
    /\ WantsResync(run[p])
    /\ ~cfg[p].auto_resync
    /\ \E wrote \in IoResults :
        IF wrote
        THEN /\ log' = [log EXCEPT ![p].entries =
                    Append(@, LogEntry("note", run[p].idx, "", 0))]
             /\ pc' = [pc EXCEPT ![p] = "pair_end"]
             /\ UNCHANGED result
        ELSE /\ Bail(p, "io")
             /\ UNCHANGED log
    /\ UNCHANGED <<env, trace, cfg, lockFile, existing, handle, guard, run, spawns>>

resync_skip(p) ==
    /\ pc[p] = "resync"
    /\ ~WantsResync(run[p])
    /\ pc' = [pc EXCEPT ![p] = "pair_end"]
    /\ UNCHANGED <<env, trace, cfg, lockFile, existing, handle, guard, run, log, spawns,
                   result>>

\* as PushStr, but the parts follow each other without a separator
PushStrOnly(combined, last) == combined \o last

\* combined.push('\n') between two non-empty parts, then push_str: in a text
\* held as a sequence of newline-terminated lines the pushed '\n' is an
\* empty line
PushStr(combined, last) ==
    IF combined # <<>> /\ last # <<>>
    THEN combined \o << <<>> >> \o last
    ELSE combined \o last

\* as AggregateExit, but every pair overwrites the aggregate
AggregateLastPair(final_exit, exit_code) == exit_code

\* final_exit after a pair that ended with exit_code
AggregateExit(final_exit, exit_code) ==
    IF exit_code # 0 THEN exit_code ELSE final_exit

\* as NextPairIdx, but a failed pair ends the loop
NextPairIdxStopOnFailure(idx, exit_code) ==
    IF exit_code # 0 THEN idx + MaxPairs + 1 ELSE idx + 1

\* the pair the loop turns to after pair idx
NextPairIdx(idx, exit_code) == idx + 1

\* the end of the loop body: the pair's last attempt is what the run keeps
pair_end(p) ==
    /\ pc[p] = "pair_end"
    /\ LET r == run[p]
           next == NextPairIdx(r.idx, r.exit_code)
       IN  /\ run' = [run EXCEPT ![p] =
                [r EXCEPT
                    !.combined_stdout = PushStr(@, r.last_stdout),
                    !.combined_stderr = PushStr(@, r.last_stderr),
                    !.final_exit = AggregateExit(@, r.exit_code),
                    !.idx = next]]
           /\ pc' = [pc EXCEPT ![p] =
                IF next > Len(Pairs(p)) THEN "footer" ELSE "pair"]
    /\ UNCHANGED <<env, trace, cfg, lockFile, existing, handle, guard, log, spawns, result>>

\* as finish, but the footer gives the exit code of the last pair
finish_with_last_exit(p) ==
    /\ pc[p] = "footer"
    /\ \E wrote \in IoResults :
        IF wrote
        THEN /\ log' = [log EXCEPT ![p].entries =
                    Append(@, LogEntry("footer", 0, "", run[p].exit_code))]
             /\ result' = [result EXCEPT ![p] = FinishedResult(run[p])]
             /\ pc' = [pc EXCEPT ![p] = "drop"]
        ELSE /\ Bail(p, "io")
             /\ UNCHANGED log
    /\ UNCHANGED <<env, trace, cfg, lockFile, existing, handle, guard, run, spawns>>

\* the footer line and the RunResult
finish(p) ==
    /\ pc[p] = "footer"
    /\ \E wrote \in IoResults :
        IF wrote
        THEN /\ log' = [log EXCEPT ![p].entries =
                    Append(@, LogEntry("footer", 0, "", run[p].final_exit))]
             /\ result' = [result EXCEPT ![p] = FinishedResult(run[p])]
             /\ pc' = [pc EXCEPT ![p] = "drop"]
        ELSE /\ Bail(p, "io")
             /\ UNCHANGED log
    /\ UNCHANGED <<env, trace, cfg, lockFile, existing, handle, guard, run, spawns>>

\* ------------------------------------------------------------ specification
Next ==
    \/ \E p \in Procs : run_job(p)
    \/ \E p \in Procs : acquire_read(p)
    \/ \E p \in Procs : acquire_remove(p)
    \/ \E p \in Procs : acquire_create(p)
    \/ \E p \in Procs : acquire_write(p)
    \/ \E p \in Procs : create_log(p)
    \/ \E p \in Procs : attempt_normal(p)
    \/ \E p \in Procs : retry_after_lock_cleanup(p)
    \/ \E p \in Procs : skip_lock_cleanup(p)
    \/ \E p \in Procs : resync_recovery(p)
    \/ \E p \in Procs : resync_note(p)
    \/ \E p \in Procs : resync_skip(p)
    \/ \E p \in Procs : pair_end(p)
    \/ \E p \in Procs : finish(p)
    \/ \E p \in Procs : drop_guard(p)
    \/ \E p \in Procs : Kill(p)

Spec == Init /\ [][Next]_vars

\* the steps of p's run_job call once it is under way
RunStep(p) ==
    \/ acquire_read(p) \/ acquire_remove(p) \/ acquire_create(p)
    \/ acquire_write(p) \/ create_log(p) \/ attempt_normal(p)
    \/ retry_after_lock_cleanup(p) \/ skip_lock_cleanup(p)
    \/ resync_recovery(p) \/ resync_note(p) \/ resync_skip(p)
    \/ pair_end(p) \/ finish(p) \/ drop_guard(p)

\* a process inside run_job keeps running, its file-system calls return and
\* every subprocess it waits for ends
FairSpec == Spec /\ \A p \in Procs : WF_vars(RunStep(p))

\* tools with fewer ways to end: one that only ever asks for a resync, one
\* that only ever reports a lock file, is killed or cannot be started, and
\* one that does both but succeeds quietly
ToolProfiles ==
    { {Outcome(Exited(0), OutPlain), Outcome(Exited(0), OutBoth),
       Outcome(Exited(1), OutResync), Outcome(Exited(1), OutBoth)},
      {Outcome(Exited(0), OutBoth), Outcome(Exited(1), OutLock),
       Outcome(Exited(1), OutPlain), Outcome(Signaled, OutPlain),
       SpawnFailed},
      {Outcome(Exited(0), OutPlain), Outcome(Exited(1), OutLock),
       Outcome(Exited(1), OutResync), Outcome(Exited(1), OutBoth)} }

\* one process runs any accepted job against one of the tool profiles on a
\* disk that does not fail, and the output of each of its subprocesses is
\* kept in trace
InitTraced ==
    /\ pc = [p \in Procs |-> IF p = 1 THEN "idle" ELSE "dead"]
    /\ cfg \in {c \in [Procs -> GoodConfigs] :
                    \A p \in Procs : p # 1 => c[p] = RaceConfig}
    /\ tool \in ToolProfiles
    /\ disk = "ok"
    /\ probe = "on"
    /\ lockFile \in StaleLocks
    /\ existing = [p \in Procs |-> NoExisting]
    /\ handle = [p \in Procs |-> "none"]
    /\ guard = [p \in Procs |-> "none"]
    /\ run = [p \in Procs |-> FreshRun]
    /\ log = [p \in Procs |-> NoLog]
    /\ spawns = [p \in Procs |-> <<>>]
    /\ result = [p \in Procs |-> NoResult]
    /\ trace = [p \in Procs |-> <<>>]
    /\ call = NoCall
    /\ InitStatus

TracedSpec == InitTraced /\ [][Next]_vars

\* one process runs a job of one pair against one of the tool profiles on a
\* disk that does not fail, and the failures of its lock cleaning are kept
InitHousekeeping ==
    /\ pc = [p \in Procs |-> IF p = 1 THEN "idle" ELSE "dead"]
    /\ cfg \in {c \in [Procs -> {g \in GoodConfigs : Len(ResolvePairs(g)) = 1}] :
                    \A p \in Procs : p # 1 => c[p] = RaceConfig}
    /\ tool \in ToolProfiles
    /\ disk = "ok"
    /\ probe = "housekeeping"
    /\ lockFile \in StaleLocks
    /\ existing = [p \in Procs |-> NoExisting]
    /\ handle = [p \in Procs |-> "none"]
    /\ guard = [p \in Procs |-> "none"]
    /\ run = [p \in Procs |-> FreshRun]
    /\ log = [p \in Procs |-> NoLog]
    /\ spawns = [p \in Procs |-> <<>>]
    /\ result = [p \in Procs |-> NoResult]
    /\ trace = [p \in Procs |-> <<>>]
    /\ call = NoCall
    /\ InitStatus

HousekeepingSpec == InitHousekeeping /\ [][Next]_vars

\* ---------------------------------------------------------- pure functions
\* longest local path, remote or pair value handed to resolve_pair_paths
MaxLen == 2

\* the characters paths and remotes are made of
Alphabet == {"/", ":", " ", "a"}

Texts == UNION {[1..n -> Alphabet] : n \in 0..MaxLen}

\* str::trim_end_matches(c)
RECURSIVE TrimEndMatches(_, _)
TrimEndMatches(s, c) ==
    IF s # <<>> /\ s[Len(s)] = c
    THEN TrimEndMatches(SubSeq(s, 1, Len(s) - 1), c) ELSE s

EndsWith(s, c) == s # <<>> /\ s[Len(s)] = c

\* a relative value joined to the base as it is written
resolved_local_joining_raw(job, pair) ==
    LET local == Trim(pair.local)
    IN  IF StartsWith(local, "/") THEN local
        ELSE IF local = <<>> THEN job.local_path
        ELSE job.local_path \o <<"/">> \o local

\* resolve_pair_paths: the local path of the pair
resolved_local(job, pair) ==
    LET local == Trim(pair.local)
    IN  IF StartsWith(local, "/") THEN local
        ELSE IF local = <<>> THEN job.local_path
        ELSE TrimEndMatches(job.local_path, "/") \o <<"/">> \o local

\* a suffix joined to the base remote as it is written
resolved_remote_joining_raw(job, pair) ==
    LET remote == Trim(pair.remote)
    IN  IF Contains(remote, ":") THEN remote
        ELSE IF remote = <<>> THEN job.remote
        ELSE IF EndsWith(job.remote, ":") THEN job.remote \o remote
        ELSE job.remote \o <<"/">> \o remote

\* resolve_pair_paths: the remote of the pair
resolved_remote(job, pair) ==
    LET remote == Trim(pair.remote)
    IN  IF Contains(remote, ":") THEN remote
        ELSE IF remote = <<>> THEN job.remote
        ELSE LET base == TrimEndMatches(job.remote, "/")
             IN  IF EndsWith(base, ":") THEN base \o remote
                 ELSE base \o <<"/">> \o remote

resolve_pair_paths(job, pair) ==
    <<resolved_local(job, pair), resolved_remote(job, pair)>>

\* the part of JobConfig build_command reads
CommandConfigs ==
    [rclone_config_path :
        {NoPath, SomePath(<<>>), SomePath(<<" ">>), SomePath(<<"c">>),
         SomePath(<<" ", "c", " ">>)},
     extra_args : {<<>>, << <<"-v">> >>, << <<"--max-delete">>, <<"5">> >>},
     use_nice_ionice : BOOLEAN]

\* the launcher commands `which` may find on the host
Launchers == {<<"nice">>, <<"ionice">>}

\* cmd_exists(name) on a host where the commands in found exist
cmd_exists(found, name) == name \in found

\* a command line with the recovery arguments ahead of the user's
build_command_recovery_first(job, local, remote, extra_args, found) ==
    LET path == Trim(job.rclone_config_path.val)
        config == IF job.rclone_config_path.some /\ path # <<>>
                  THEN << <<"--config">>, path >> ELSE <<>>
        args == << <<"bisync">>, local, remote >> \o config
                    \o extra_args \o job.extra_args
    IN  IF job.use_nice_ionice /\ cmd_exists(found, <<"nice">>)
            /\ cmd_exists(found, <<"ionice">>)
        THEN [program |-> <<"nice">>,
              args |-> << <<"-n">>, <<"19">>, <<"ionice">>, <<"-c">>, <<"3">>,
                          <<"rclone">> >> \o args]
        ELSE [program |-> <<"rclone">>, args |-> args]

\* build_command: the program to start and its arguments
build_command(job, local, remote, extra_args, found) ==
    LET path == Trim(job.rclone_config_path.val)
        config == IF job.rclone_config_path.some /\ path # <<>>
                  THEN << <<"--config">>, path >> ELSE <<>>
        args == << <<"bisync">>, local, remote >> \o config
                    \o job.extra_args \o extra_args
    IN  IF job.use_nice_ionice /\ cmd_exists(found, <<"nice">>)
            /\ cmd_exists(found, <<"ionice">>)
        THEN [program |-> <<"nice">>,
              args |-> << <<"-n">>, <<"19">>, <<"ionice">>, <<"-c">>, <<"3">>,
                          <<"rclone">> >> \o args]
        ELSE [program |-> <<"rclone">>, args |-> args]

\* ------------------------------------------------ the outcome summarizer
\* most lines of output handed to the summarizer
MaxLines == 3

\* the largest value of the counter type (u32::MAX), scaled down
CountMax == 50

\* a line of output is a sequence of words; a word is text or a number
Word(w) == [w |-> w, n |-> 0]
Num(n) == [w |-> "#", n |-> n]

IsNum(t) == t.w = "#"

\* str::parse::<u32>: the value of a number that fits the type
ParseCount(t) ==
    IF IsNum(t) /\ t.n <= CountMax THEN [some |-> TRUE, val |-> t.n]
    ELSE [some |-> FALSE, val |-> 0]

NoCount == [some |-> FALSE, val |-> 0]
SomeCount(n) == [some |-> TRUE, val |-> n]

\* u32::saturating_add
saturating_add(a, b) == IF a + b > CountMax THEN CountMax ELSE a + b

\* str::find on a line: the position of the first word equal to label, or 0
Find(line, label) ==
    IF \E i \in 1..Len(line) : line[i] = label
    THEN CHOOSE i \in 1..Len(line) :
            /\ line[i] = label
            /\ \A j \in 1..(i - 1) : line[j] # label
    ELSE 0

\* the words starts_with("changes") accepts
ChangesWords == {Word("changes:"), Word("changes")}

\* what one label adds for one line in sum_path_changes
PathChange(line, label) ==
    LET pos == Find(line, Word(label))
    IN  IF pos = 0 \/ pos + 2 > Len(line) THEN NoCount
        ELSE IF line[pos + 2] \notin ChangesWords THEN NoCount
        ELSE ParseCount(line[pos + 1])

\* the (line, label) visits of sum_path_changes, in order
PathLabels == <<"Path1:", "Path2:">>

\* as sum_path_changes, but the largest count is kept instead of the sum
RECURSIVE max_path_changes(_)
max_path_changes(text) ==
    IF text = <<>> THEN [total |-> 0, saw_any |-> FALSE]
    ELSE LET before == max_path_changes(SubSeq(text, 1, Len(text) - 1))
             line == text[Len(text)]
             one == PathChange(line, PathLabels[1])
             two == PathChange(line, PathLabels[2])
             m1 == IF one.some /\ one.val > before.total
                   THEN one.val ELSE before.total
             m2 == IF two.some /\ two.val > m1 THEN two.val ELSE m1
         IN  [total |-> m2,
              saw_any |-> before.saw_any \/ one.some \/ two.some]

\* sum_path_changes: the total and whether any line counted
RECURSIVE sum_path_changes(_)
sum_path_changes(text) ==
    IF text = <<>> THEN [total |-> 0, saw_any |-> FALSE]
    ELSE LET before == sum_path_changes(SubSeq(text, 1, Len(text) - 1))
             line == text[Len(text)]
             one == PathChange(line, PathLabels[1])
             two == PathChange(line, PathLabels[2])
             t1 == IF one.some THEN saturating_add(before.total, one.val)
                   ELSE before.total
             t2 == IF two.some THEN saturating_add(t1, two.val) ELSE t1
         IN  [total |-> t2,
              saw_any |-> before.saw_any \/ one.some \/ two.some]

\* the number a progress line of the label yields: the one between the
\* first " / " and the first ',' after it
ProgressNumber(line, label) ==
    IF line = <<>> \/ line[1] # Word(label) THEN NoCount
    ELSE LET rest == SubSeq(line, 2, Len(line))
             slash == Find(rest, Word("/"))
         IN  IF slash = 0 THEN NoCount
             ELSE LET after_slash == SubSeq(rest, slash + 1, Len(rest))
                      comma == Find(after_slash, Word(","))
                  IN  IF comma # 2 THEN NoCount
                      ELSE ParseCount(after_slash[1])

\* rest.contains("100%")
Has100(line) == \E i \in 2..Len(line) : line[i] = Word("100%")

\* the number of the last line among ks, or None
LastNumber(text, label, ks) ==
    IF ks = {} THEN NoCount
    ELSE ProgressNumber(text[CHOOSE k \in ks : \A m \in ks : m <= k], label)

\* as extract_last_number_after_label, but the last line wins whatever its
\* percentage
extract_last_number_of_any_line(text, label) ==
    LastNumber(text, label,
               {k \in 1..Len(text) : ProgressNumber(text[k], label).some})

\* extract_last_number_after_label
extract_last_number_after_label(text, label) ==
    LET hits == {k \in 1..Len(text) : ProgressNumber(text[k], label).some}
        full == {k \in hits : Has100(text[k])}
    IN  IF full # {} THEN LastNumber(text, label, full)
        ELSE LastNumber(text, label, hits \ full)

\* format!("{}\n{}", stdout, stderr) as a sequence of lines
Combined(stdout, stderr) == stdout \o << <<>> >> \o stderr

\* detect_changed_count
detect_changed_count(stdout, stderr) ==
    LET combined == Combined(stdout, stderr)
        changes == sum_path_changes(combined)
        transferred == extract_last_number_after_label(combined, "Transferred:")
        copied == extract_last_number_after_label(combined, "Copied:")
    IN  IF changes.saw_any THEN SomeCount(changes.total)
        ELSE IF transferred.some /\ copied.some
             THEN SomeCount(saturating_add(transferred.val, copied.val))
        ELSE IF transferred.some THEN transferred
        ELSE IF copied.some THEN copied
        ELSE NoCount

ChangesLine(label, n) ==
    <<Word("INFO"), Word(":"), Word(label), Num(n), Word("changes:"),
      Num(0), Word("new,")>>

ProgressLine(label, done, total, pct) ==
    <<Word(label), Num(done), Word("/"), Num(total), Word(","), Word(pct)>>

\* lines the sync tool may write
OutputLines ==
    {ChangesLine("Path1:", 40), ChangesLine("Path1:", 5),
     ChangesLine("Path2:", 40), ChangesLine("path1:", 5),
     <<Word("INFO"), Word(":"), Word("No"), Word("changes"), Word("found")>>,
     ProgressLine("Transferred:", 5, 40, "13%"),
     ProgressLine("Transferred:", 40, 40, "100%"),
     ProgressLine("Transferred:", 5, 5, "100%"),
     ProgressLine("Copied:", 5, 40, "13%"),
     ProgressLine("Copied:", 40, 40, "100%"),
     <<Word("Transferred:"), Num(5), Word("MiB"), Word("/"), Num(5),
       Word("MiB"), Word(","), Word("100%")>>}

\* the outputs handed to the summarizer: stdout and stderr
Outputs ==
    UNION {[stdout : [1..k -> OutputLines], stderr : [1..(n - k) -> OutputLines]] :
            <<n, k>> \in {nk \in (0..MaxLines) \X (0..MaxLines) : nk[2] <= nk[1]}}

\* ---------------------------------------------------- the status update
MAX_LOG_LINES == 6

\* most lines of a text handed to preview_lines: one more than it keeps
MaxText == MAX_LOG_LINES + 1

\* a blank between the words of a line, or at one of its ends
Sp == Word(" ")

RECURSIVE TrimWordsStart(_)
TrimWordsStart(line) ==
    IF line # <<>> /\ Head(line) = Sp THEN TrimWordsStart(Tail(line)) ELSE line

RECURSIVE TrimWordsEnd(_)
TrimWordsEnd(line) ==
    IF line # <<>> /\ line[Len(line)] = Sp
    THEN TrimWordsEnd(SubSeq(line, 1, Len(line) - 1)) ELSE line

\* str::trim on a line
TrimWords(line) == TrimWordsEnd(TrimWordsStart(line))

\* as the queue after one more line, but a full queue takes no further line
PushUntilFull(queue, line) ==
    LET trimmed == TrimWords(line)
    IN  IF trimmed = <<>> \/ Len(queue) = MAX_LOG_LINES THEN queue
        ELSE Append(queue, trimmed)

\* the queue after one more line
Push(queue, line) ==
    LET trimmed == TrimWords(line)
    IN  IF trimmed = <<>> THEN queue
        ELSE Append(IF Len(queue) = MAX_LOG_LINES THEN Tail(queue) ELSE queue,
                    trimmed)

RECURSIVE Queue(_, _)
Queue(queue, lines) ==
    IF lines = <<>> THEN queue
    ELSE Queue(Push(queue, Head(lines)), Tail(lines))

\* ScriptResult::preview_lines
preview_lines(stdout, stderr) == Queue(<<>>, stdout \o stderr)

\* str::trim on a text: the blank lines at both ends go, with the blanks
\* before its first and after its last word
RECURSIVE TrimTextStart(_)
TrimTextStart(text) ==
    IF text = <<>> THEN <<>>
    ELSE IF TrimWords(Head(text)) = <<>> THEN TrimTextStart(Tail(text))
    ELSE <<TrimWordsStart(Head(text))>> \o Tail(text)

RECURSIVE TrimTextEnd(_)
TrimTextEnd(text) ==
    IF text = <<>> THEN <<>>
    ELSE IF TrimWords(text[Len(text)]) = <<>>
         THEN TrimTextEnd(SubSeq(text, 1, Len(text) - 1))
    ELSE SubSeq(text, 1, Len(text) - 1) \o <<TrimWordsEnd(text[Len(text)])>>

TrimText(text) == TrimTextEnd(TrimTextStart(text))

\* format!("Exited with code {}", exit_code)
ExitText(code) == <<Word("Exited with code"), Num(code)>>

\* ScriptResult::error_summary
error_summary(r) ==
    LET stderr == TrimText(r.stderr)
    IN  IF stderr # <<>> THEN SomeText(TrimWords(stderr[Len(stderr)]))
        ELSE IF r.exit_code # 0 THEN SomeText(ExitText(r.exit_code))
        ELSE NoText

\* as update_from_result, but a success leaves the recorded error alone
update_from_result_keeping_error(st, r) ==
    [st EXCEPT
        !.last_run = SomeNumber(r.timestamp),
        !.last_exit_code = SomeNumber(r.exit_code),
        !.log_preview = preview_lines(r.stdout, r.stderr),
        !.last_log_file = r.log_file,
        !.last_changed_count = detect_changed_count(r.stdout, r.stderr),
        !.last_duration_secs = r.duration_secs,
        !.last_success = IF r.exit_code = 0 THEN SomeNumber(r.timestamp) ELSE @,
        !.last_error = IF r.exit_code = 0 THEN @ ELSE error_summary(r)]

\* as update_from_result, but a result without a log file leaves the
\* recorded log file alone
update_from_result_keeping_log(st, r) ==
    [st EXCEPT
        !.last_run = SomeNumber(r.timestamp),
        !.last_exit_code = SomeNumber(r.exit_code),
        !.log_preview = preview_lines(r.stdout, r.stderr),
        !.last_log_file = IF r.log_file.some THEN r.log_file ELSE @,
        !.last_changed_count = detect_changed_count(r.stdout, r.stderr),
        !.last_duration_secs = r.duration_secs,
        !.last_success = IF r.exit_code = 0 THEN SomeNumber(r.timestamp) ELSE @,
        !.last_error = IF r.exit_code = 0 THEN NoText ELSE error_summary(r)]

\* SyncState::update_from_result
update_from_result(st, r) ==
    [st EXCEPT
        !.last_run = SomeNumber(r.timestamp),
        !.last_exit_code = SomeNumber(r.exit_code),
        !.log_preview = preview_lines(r.stdout, r.stderr),
        !.last_log_file = r.log_file,
        !.last_changed_count = detect_changed_count(r.stdout, r.stderr),
        !.last_duration_secs = r.duration_secs,
        !.last_success = IF r.exit_code = 0 THEN SomeNumber(r.timestamp) ELSE @,
        !.last_error = IF r.exit_code = 0 THEN NoText ELSE error_summary(r)]

\* a line of a text handed to preview_lines: empty, blank, or the number of
\* the line with blanks around it
PreviewLine(kind, i) ==
    CASE kind = "empty" -> <<>>
      [] kind = "blank" -> <<Sp>>
      [] OTHER -> <<Sp, Num(i), Sp>>

\* the texts handed to preview_lines, with none, half or all of the lines
\* in stdout and the others in stderr
PreviewInputs ==
    UNION {
        { [stdout |-> [i \in 1..k |-> PreviewLine(kinds[i], i)],
           stderr |-> [i \in 1..(n - k) |-> PreviewLine(kinds[k + i], k + i)]] :
            kinds \in [1..n -> {"empty", "blank", "text"}] } :
        <<n, k>> \in {nk \in (0..MaxText) \X (0..MaxText) :
                          nk[2] \in {0, nk[1] \div 2, nk[1]}} }

\* values a pair's local may have in a configuration handed to validation
PairLocals == {<<>>, <<"a">>, <<"/", "a">>}
\* values a pair's remote may have
PairRemotes == {<<>>, <<"a">>, <<"a", ":">>}
SyncPairs == [local : PairLocals, remote : PairRemotes]

\* job configurations handed to validate_config and to the pair resolver
ValidationInputs ==
    { [JobConfig(lp, rm, 0, ar, TRUE) EXCEPT !.pairs = ps] :
        lp \in {<<>>, <<" ">>, <<"/", "h">>},
        rm \in {<<>>, <<"g", ":">>},
        ar \in {TRUE},
        ps \in UNION {[1..n -> SyncPairs] : n \in 0..MaxPairs} }

\* no process exists: only the pure functions are called
InitCalls ==
    /\ pc = [p \in Procs |-> "dead"]
    /\ cfg = [p \in Procs |-> RaceConfig]
    /\ tool = PlainOutcomes
    /\ disk = "ok"
    /\ probe = "off"
    /\ lockFile = NoLocks
    /\ existing = [p \in Procs |-> NoExisting]
    /\ handle = [p \in Procs |-> "none"]
    /\ guard = [p \in Procs |-> "none"]
    /\ run = [p \in Procs |-> FreshRun]
    /\ log = [p \in Procs |-> NoLog]
    /\ spawns = [p \in Procs |-> <<>>]
    /\ result = [p \in Procs |-> NoResult]
    /\ trace = [p \in Procs |-> <<>>]
    /\ call = NoCall
    /\ InitStatus

\* everything but call
runner == <<cfg, pc, lockFile, existing, handle, guard, run, log, spawns,
            result, tool, disk, probe, trace>>

state == <<runner, status, applet, notified, logdir>>

call_validate_config ==
    /\ call.fn = None
    /\ \E c \in ValidationInputs :
        call' = [fn |-> "validate_config", arg |-> c,
                 ret |-> validate_config(c)]
    /\ UNCHANGED state

call_resolve_pairs ==
    /\ call.fn = None
    /\ \E c \in ValidationInputs :
        call' = [fn |-> "pairs", arg |-> c, ret |-> ResolvePairs(c)]
    /\ UNCHANGED state

call_resolve_pair_paths ==
    /\ call.fn = None
    /\ \E base \in Texts, value \in Texts :
        LET c == [local_path |-> base, remote |-> base]
            pair == [local |-> value, remote |-> value]
        IN  call' = [fn |-> "resolve_pair_paths",
                     arg |-> [cfg |-> c, pair |-> pair],
                     ret |-> resolve_pair_paths(c, pair)]
    /\ UNCHANGED state

\* the (local, remote) of every pair the loop of run_job executes, in order
executed_pairs(job) ==
    [i \in 1..Len(ResolvePairs(job)) |->
        resolve_pair_paths(job, ResolvePairs(job)[i])]

\* run_job up to the paths of its attempts: the validation, then the pairs
call_run_job_paths ==
    /\ call.fn = None
    /\ \E c \in ValidationInputs :
        call' = [fn |-> "run_job_paths", arg |-> c,
                 ret |-> [accepted |-> validate_config(c),
                          paths |-> IF validate_config(c)
                                    THEN executed_pairs(c) ELSE <<>>]]
    /\ UNCHANGED state

call_build_command ==
    /\ call.fn = None
    /\ \E c \in CommandConfigs, found \in SUBSET Launchers,
          extra \in {<<>>, << <<"--resync">> >>} :
        call' = [fn |-> "build_command",
                 arg |-> [cfg |-> c, local |-> <<"/", "h">>,
                          remote |-> <<"g", ":">>, extra_args |-> extra,
                          found |-> found],
                 ret |-> build_command(c, <<"/", "h">>, <<"g", ":">>, extra,
                                       found)]
    /\ UNCHANGED state

\* the caller takes the returned value
call_clean_bisync_locks ==
    /\ call.fn = None
    /\ \E enabled \in BOOLEAN, dir \in Dirs, e \in CleanEnvs :
        call' = [fn |-> "clean_bisync_locks",
                 arg |-> [enabled |-> enabled, dir |-> dir, env |-> e],
                 ret |-> preclean(enabled, dir, e)]
    /\ UNCHANGED state

call_remove_stale_lock_file ==
    /\ call.fn = None
    /\ \E lck \in LckStates, e \in CleanEnvs :
        call' = [fn |-> "remove_stale_lock_file",
                 arg |-> [lck |-> lck, env |-> e],
                 ret |-> stale_lock_removal(lck, e)]
    /\ UNCHANGED state

call_detect_changed_count ==
    /\ call.fn = None
    /\ \E o \in Outputs :
        call' = [fn |-> "detect_changed_count", arg |-> o,
                 ret |-> detect_changed_count(o.stdout, o.stderr)]
    /\ UNCHANGED state

call_preview_lines ==
    /\ call.fn = None
    /\ \E o \in PreviewInputs :
        call' = [fn |-> "preview_lines", arg |-> o,
                 ret |-> preview_lines(o.stdout, o.stderr)]
    /\ UNCHANGED state

call_return ==
    /\ call.fn # None
    /\ call' = NoCall
    /\ UNCHANGED state

CallNext ==
    \/ call_return
    \/ call_validate_config
    \/ call_resolve_pairs
    \/ call_resolve_pair_paths
    \/ call_run_job_paths
    \/ call_build_command
    \/ call_clean_bisync_locks
    \/ call_remove_stale_lock_file
    \/ call_detect_changed_count
    \/ call_preview_lines

CallSpec == InitCalls /\ [][CallNext]_vars

\* ------------------------------------------------ runs and notifications
\* most runs started
MaxRuns == 2

\* what a run writes: nothing but a blank line on stderr; a count of no
\* changes; or a count of five changes with two lines on stderr, the second
\* with blanks around it, and an empty line after them
RunOutputs ==
    {[stdout |-> <<>>, stderr |-> << <<Sp>> >>],
     [stdout |-> <<ChangesLine("Path1:", 0)>>, stderr |-> <<>>],
     [stdout |-> <<ChangesLine("Path1:", 5)>>,
      stderr |-> << <<Word("NOTICE")>>, <<Sp, Word("ERROR"), Sp>>, <<>> >>]}

\* the stderr of the RunResult of a run skipped for a live holder
SkippedText ==
    << <<Word("Sync already running (PID:"), Num(7),
         Word("). Skipping this run.")>> >>

\* the RunResult of a run skipped because another instance holds the lock
SkippedOutcome(ts) ==
    [NoOutcome EXCEPT !.kind = "ok", !.timestamp = ts, !.stderr = SkippedText]

\* what run_job_and_capture gives a run started at ts: an error, the result
\* of a skipped run, or the result of a run with its log file and duration
RunOutcomes(ts) ==
    {[NoOutcome EXCEPT !.kind = "err", !.timestamp = ts], SkippedOutcome(ts)}
    \cup
    {[kind |-> "ok", timestamp |-> ts, exit_code |-> code,
      stdout |-> o.stdout, stderr |-> o.stderr,
      log_file |-> SomeText(<<Word(LogPath)>>),
      duration_secs |-> SomeNumber(1)] :
        code \in {0, 1}, o \in RunOutputs}

\* the error of a failed run_sync, as the applet formats it
RunFailedText == <<Word("Sync run failed:"), Word("error")>>

\* the error of a task that could not load the job or its status
LoadFailedText == <<Word("error")>>

\* StatusStore::run_sync on a store holding st: whether it returned Ok, the
\* state the store holds after it, and whether that state was written
run_sync(st, outcome, persisted) ==
    IF outcome.kind = "err"
    THEN [ok |-> FALSE, state |-> st, stored |-> FALSE]
    ELSE [ok |-> persisted, state |-> update_from_result(st, outcome),
          stored |-> persisted]

\* StatusStore::set_last_error_and_persist, the state it leaves in the store
set_last_error(st, message) == [st EXCEPT !.last_error = SomeText(message)]

Changed(st) == st.last_changed_count.some /\ st.last_changed_count.val > 0

\* the notification run_once sends after run_sync returned result
cli_notification(outcome, st) ==
    IF outcome.exit_code # 0 THEN "failed"
    ELSE IF Changed(st) THEN "completed"
    ELSE None

\* the notification SyncFinished sends for the state it shows
applet_notification(st) ==
    IF ~st.last_exit_code.some THEN None
    ELSE IF st.last_exit_code.val # 0 THEN "failed"
    ELSE IF Changed(st) THEN "completed"
    ELSE None

\* as run_once_exit, but the exit code of the result is not looked at
run_once_exit_ignoring_code(ran, outcome) == IF ran.ok THEN 0 ELSE 1

\* the exit status of the run command: 1 when run_once returned an error,
\* which it does for an error of run_sync and for a result with a non-zero
\* exit code
run_once_exit(ran, outcome) ==
    IF ~ran.ok THEN 1
    ELSE IF outcome.exit_code # 0 THEN 1
    ELSE 0

\* the run command when the job or its status cannot be loaded: run_once
\* returns the error before any run
cli_load_failed ==
    /\ notified.via # "cli" \/ notified.outcome.kind # None
    /\ notified' = [notified EXCEPT !.via = "cli", !.outcome = NoOutcome,
                                    !.sent = None, !.exited = 1]
    /\ UNCHANGED <<status, applet, runner, call, logdir>>

\* main.rs run_once, after the job was loaded: load the status, run, store
\* and notify; an error of run_sync ends it before any notification
cli_run_once ==
    /\ notified.clock < MaxRuns
    /\ \E outcome \in RunOutcomes(notified.clock + 1), persisted \in BOOLEAN :
        LET ran == run_sync(status, outcome, persisted)
        IN  /\ status' = IF ran.stored THEN ran.state ELSE status
            /\ notified' =
                  [via |-> "cli", outcome |-> outcome,
                   sent |-> IF ran.ok THEN cli_notification(outcome, ran.state)
                            ELSE None,
                   clock |-> notified.clock + 1,
                   applied |-> IF ran.ok THEN outcome ELSE notified.applied,
                   exited |-> run_once_exit(ran, outcome)]
    /\ UNCHANGED <<applet, runner, call, logdir>>

\* the lock path of the applet's job, which configures none
AppletLockPath == lock_path(RaceConfig)

\* detect_running up to pid_alive: no file or no pid in it is None, a live
\* pid is Some(RunningInfo), a dead pid leads to the delete
detect_running_read(file) ==
    IF ~file.exists THEN "none"
    ELSE LET pid == ParseU32(Trim(file.content))
         IN  IF ~pid.ok THEN "none"
             ELSE IF pid_alive(pid.val) THEN "running" ELSE "stale"

\* refresh_syncing_summary up to the read inside detect_running: a manual
\* sync keeps syncing on; else the job is loaded (loaded is whether that
\* worked) and the lock file decides
refresh_syncing_summary(a, loaded) ==
    IF a.manual_syncing THEN [a EXCEPT !.syncing = TRUE]
    ELSE IF ~loaded THEN [a EXCEPT !.syncing = FALSE]
    ELSE LET found == detect_running_read(lockFile[AppletLockPath])
         IN  IF found = "running" THEN [a EXCEPT !.syncing = TRUE]
             ELSE IF found = "none" THEN [a EXCEPT !.syncing = FALSE]
             ELSE [a EXCEPT !.pos = "detect_remove"]

\* the rest of detect_running after it read a dead pid: fs::remove_file of
\* the lock path, None is returned and the applet shows no sync
applet_detect_remove ==
    /\ applet.pos = "detect_remove"
    /\ lockFile' = [lockFile EXCEPT ![AppletLockPath] = NoFile]
    /\ handle' = Unlinked(AppletLockPath)
    /\ applet' = [applet EXCEPT !.syncing = FALSE, !.pos = "idle"]
    /\ UNCHANGED <<call, probe, tool, disk, status, notified, logdir, trace,
                   cfg, pc, existing, guard, run, log, spawns, result>>

\* as applet_sync_now, but a task is spawned while syncing too
applet_sync_now_always ==
    /\ applet.pos = "idle"
    /\ applet.inflight < 2
    /\ applet' = [applet EXCEPT !.syncing = TRUE, !.manual_syncing = TRUE,
                                !.task = "spawned", !.inflight = @ + 1]
    /\ UNCHANGED <<status, notified, runner, call, logdir>>

\* Message::SyncNow: ignored while syncing, else the task is spawned
applet_sync_now ==
    /\ applet.pos = "idle"
    /\ IF applet.syncing
       THEN UNCHANGED applet
       ELSE applet' = [applet EXCEPT !.syncing = TRUE,
                                     !.manual_syncing = TRUE,
                                     !.task = "spawned", !.inflight = @ + 1]
    /\ UNCHANGED <<status, notified, runner, call, logdir>>

\* Message::SyncLogTick: the log tail is read again while syncing; the tail
\* is not kept in the applet record
applet_sync_log_tick ==
    /\ applet.pos = "idle"
    /\ UNCHANGED <<applet, status, notified, runner, call, logdir>>

\* the task of Sync now fails before the run: Err(err) goes to SyncFinished
applet_sync_task_load_failed ==
    /\ applet.task = "spawned"
    /\ applet' = [applet EXCEPT !.task = "done", !.inflight = @ - 1,
                                !.res = [NoRes EXCEPT !.ok = FALSE,
                                                      !.err = LoadFailedText],
                                !.ran = NoOutcome]
    /\ UNCHANGED <<status, notified, runner, call, logdir>>

\* the task of Sync now: load the status, run, on an error of run_sync set
\* last_error and store again, and hand the state of the store on
applet_sync_task ==
    /\ applet.task = "spawned"
    /\ notified.clock < MaxRuns
    /\ \E outcome \in RunOutcomes(notified.clock + 1),
          persisted \in BOOLEAN, persisted_again \in BOOLEAN :
        LET ran == run_sync(status, outcome, persisted)
            final == IF ran.ok THEN ran.state
                     ELSE set_last_error(ran.state, RunFailedText)
        IN  /\ ran.ok => persisted_again
            /\ status' = IF ran.ok \/ persisted_again THEN final ELSE status
            /\ applet' = [applet EXCEPT !.task = "done", !.inflight = @ - 1,
                                        !.res = [NoRes EXCEPT !.state = final],
                                        !.ran = outcome]
            /\ notified' = [notified EXCEPT
                              !.clock = @ + 1,
                              !.applied = IF ran.ok THEN outcome ELSE @]
    /\ UNCHANGED <<runner, call, logdir>>

\* Message::SyncFinished: manual_syncing is cleared, the state or the error
\* is taken, the notification goes by the exit code and the changed count of
\* the state now shown, and the syncing summary is refreshed
applet_sync_finished ==
    /\ applet.pos = "idle"
    /\ applet.task = "done"
    /\ LET shown == IF applet.res.ok THEN applet.res.state
                    ELSE [applet.state EXCEPT
                            !.last_error = SomeText(applet.res.err)]
       IN  /\ \E loaded \in BOOLEAN :
                applet' = refresh_syncing_summary(
                            [applet EXCEPT !.manual_syncing = FALSE,
                                           !.task = "none", !.state = shown,
                                           !.res = NoRes, !.ran = NoOutcome],
                            loaded)
           /\ notified' = [notified EXCEPT
                             !.via = "applet", !.outcome = applet.ran,
                             !.exited = 0,
                             !.sent = applet_notification(shown)]
    /\ UNCHANGED <<status, runner, call, logdir>>

\* Message::Refresh: the state of the status file is shown and the syncing
\* summary is refreshed
applet_refresh ==
    /\ applet.pos = "idle"
    /\ \E loaded \in BOOLEAN :
        applet' = refresh_syncing_summary([applet EXCEPT !.state = status],
                                          loaded)
    /\ UNCHANGED <<status, notified, runner, call, logdir>>

StatusNext ==
    \/ cli_load_failed
    \/ cli_run_once
    \/ applet_sync_now
    \/ applet_sync_task_load_failed
    \/ applet_sync_task
    \/ applet_sync_finished
    \/ applet_refresh

StatusSpec == InitCalls /\ [][StatusNext]_vars

\* ------------------------------------------- the applet beside a running job
\* one process runs the job from the command line or the timer while the
\* applet handles its messages; the lock file may be left over from before
InitApplet ==
    /\ pc = [p \in Procs |-> IF p = 1 THEN "idle" ELSE "dead"]
    /\ cfg = [p \in Procs |-> RaceConfig]
    /\ tool = PlainOutcomes
    /\ disk = "ok"
    /\ probe = "off"
    /\ lockFile \in StaleLocks
    /\ existing = [p \in Procs |-> NoExisting]
    /\ handle = [p \in Procs |-> "none"]
    /\ guard = [p \in Procs |-> "none"]
    /\ run = [p \in Procs |-> FreshRun]
    /\ log = [p \in Procs |-> NoLog]
    /\ spawns = [p \in Procs |-> <<>>]
    /\ result = [p \in Procs |-> NoResult]
    /\ trace = [p \in Procs |-> <<>>]
    /\ call = NoCall
    /\ InitStatus

\* the steps of a run against a tool that gives no recovery signal
PlainRunStep(p) ==
    \/ run_job(p) \/ acquire_read(p) \/ acquire_remove(p)
    \/ acquire_create(p) \/ acquire_write(p) \/ create_log(p)
    \/ attempt_normal(p) \/ skip_lock_cleanup(p) \/ resync_skip(p)
    \/ pair_end(p) \/ finish(p) \/ drop_guard(p)

AppletNext ==
    \/ \E p \in Procs : PlainRunStep(p)
    \/ applet_sync_now
    \/ applet_sync_task_load_failed
    \/ applet_sync_task
    \/ applet_sync_finished
    \/ applet_refresh
    \/ applet_detect_remove
    \/ applet_sync_log_tick

AppletSpec == InitApplet /\ [][AppletNext]_vars

\* ------------------------------------------------- jobs and their lock paths
\* what the other jobs have as lock_file: nothing, an empty or a blank
\* value, or a path of their own
LockFileValues ==
    {NoPath, SomePath(<<>>), SomePath(<<" ">>), SomePath(OwnLockPath)}

\* the first process runs the job "job", which configures no lock path, and
\* every other process runs the job "other" with one of the lock_file
\* values; the tool is plain and the disk does not fail
InitJobs ==
    /\ pc = [p \in Procs |-> "idle"]
    /\ cfg \in {c \in [Procs -> {[RaceConfig EXCEPT !.name = n, !.lock_file = lf] :
                                    n \in {"job", "other"},
                                    lf \in LockFileValues}] :
                    /\ c[1] = RaceConfig
                    /\ \A p \in Procs : p # 1 => c[p].name = "other"}
    /\ tool = PlainOutcomes
    /\ disk = "ok"
    /\ probe = "off"
    /\ lockFile \in StaleLocks
    /\ existing = [p \in Procs |-> NoExisting]
    /\ handle = [p \in Procs |-> "none"]
    /\ guard = [p \in Procs |-> "none"]
    /\ run = [p \in Procs |-> FreshRun]
    /\ log = [p \in Procs |-> NoLog]
    /\ spawns = [p \in Procs |-> <<>>]
    /\ result = [p \in Procs |-> NoResult]
    /\ trace = [p \in Procs |-> <<>>]
    /\ call = NoCall
    /\ InitStatus

JobsNext == \E p \in Procs : PlainRunStep(p)

JobsSpec == InitJobs /\ [][JobsNext]_vars

\* ------------------------------------------------- runs and their log files
others == <<runner, call, status, applet, notified>>

\* the run of job j now under way
ThisRun(j) == <<j, logdir.runs[j].n>>

\* the run writes one part through its handle
LogWrite(j, what, next) ==
    LET r == logdir.runs[j]
        f == logdir.files[r.file]
    IN  logdir' = [logdir EXCEPT
            !.files[r.file] =
                [exists |-> TRUE,
                 content |-> WriteAt(f.content, r.offset,
                                     LogPart(j, r.n, what)),
                 users |-> f.users \cup {ThisRun(j)}],
            !.runs[j] = [r EXCEPT !.pc = next, !.offset = @ + 1]]

\* run_job takes the time and create_log_file names the file after it:
\* File::create makes the file, or cuts it to nothing when it exists
create_log_file(j) ==
    /\ logdir.runs[j].pc = "idle"
    /\ logdir.runs[j].n < MaxLogRuns
    /\ LET name == FormatSeconds(logdir.now)
           n == logdir.runs[j].n + 1
       IN  logdir' = [logdir EXCEPT
               !.files[name] =
                   [exists |-> TRUE, content |-> <<>>,
                    users |-> @.users \cup {<<j, n>>}],
               !.runs[j] = [pc |-> "header", n |-> n, file |-> name,
                            offset |-> 0]]
    /\ UNCHANGED others

\* the run header
write_header(j) ==
    /\ logdir.runs[j].pc = "header"
    /\ LogWrite(j, "header", "body")
    /\ UNCHANGED others

\* write_log_chunk: the block of one attempt
write_log_chunk(j) ==
    /\ logdir.runs[j].pc = "body"
    /\ LogWrite(j, "attempt", "footer")
    /\ UNCHANGED others

\* the footer, and run_job returns
write_footer(j) ==
    /\ logdir.runs[j].pc = "footer"
    /\ LogWrite(j, "footer", "idle")
    /\ UNCHANGED others

\* the subprocess cannot be started: run_job returns the error
spawn_failed(j) ==
    /\ logdir.runs[j].pc = "body"
    /\ logdir' = [logdir EXCEPT !.runs[j].pc = "idle"]
    /\ UNCHANGED others

\* time passes within a second
tick ==
    /\ logdir.now.sub < MaxSub
    /\ logdir' = [logdir EXCEPT !.now.sub = @ + 1]
    /\ UNCHANGED others

\* the next second starts
tick_second ==
    /\ logdir.now.sec < MaxSeconds
    /\ logdir' = [logdir EXCEPT !.now = [sec |-> @.sec + 1, sub |-> 0]]
    /\ UNCHANGED others

LogNext ==
    \/ \E j \in LogJobs : create_log_file(j)
    \/ \E j \in LogJobs : write_header(j)
    \/ \E j \in LogJobs : write_log_chunk(j)
    \/ \E j \in LogJobs : write_footer(j)
    \/ \E j \in LogJobs : spawn_failed(j)
    \/ tick
    \/ tick_second

LogSpec == InitCalls /\ [][LogNext]_vars

\* ------------------------------------------------------------------ claims
\* the file at the default lock path, the lock of every job that configures
\* no path of its own
sharedLock == lockFile[DefaultLockPath]

ProcessLive(pid) == \E q \in Procs : PidOf(q) = pid /\ pc[q] # "dead"

\* the text records the pid of a process that is alive
RecordsLivePid(text) ==
    LET pid == ParseU32(Trim(text))
    IN  pid.ok /\ ProcessLive(pid.val)

\* p is between a successful LockGuard::acquire and the drop of its guard
Holding(p) == pc[p] \in HoldingPcs

\* a step of p inside LockGuard::acquire (not its termination from outside)
AcquireStep(p) ==
    /\ pc[p] \in AcquirePcs
    /\ pc'[p] # pc[p]
    /\ pc'[p] # "dead"

AlreadyRunningText(pid) ==
    << <<"Sync already running (PID: ">> \o FormatU32(pid)
        \o <<"). Skipping this run.">> >>

\* C1: at most one process is between a successful LockGuard::acquire and
\* the release of its guard, whatever the interleaving of the callers.
C1_MutualExclusion ==
    \A p, q \in Procs : p # q => ~(Holding(p) /\ Holding(q))

\* C2: a run_job call whose acquire reads the pid of a live process returns
\* Ok with exit code 0, empty stdout, the 'already running (PID)' message, no
\* log file and no duration; it starts no subprocess, creates no log file
\* and leaves the lock file as it found it.
C2_AlreadyRunningIsNoOp ==
    [][\A p \in Procs :
        (AcquireStep(p) /\ pc[p] = "acquire" /\ sharedLock.exists
            /\ RecordsLivePid(sharedLock.content))
        => /\ pc'[p] = "returned"
           /\ result'[p].kind = "Ok"
           /\ result'[p].exit_code = 0
           /\ result'[p].stdout = <<>>
           /\ result'[p].stderr =
                AlreadyRunningText(ParseU32(Trim(sharedLock.content)).val)
           /\ result'[p].log_file = None
           /\ result'[p].duration_secs = None
           /\ spawns'[p] = <<>>
           /\ ~log'[p].created
           /\ guard'[p] = "none"
           /\ lockFile' = lockFile]_vars

\* a run skipped because the lock file records a live pid has returned
C2_Witness ==
    \E p \in Procs :
        /\ pc[p] = "returned"
        /\ existing[p].alive
        /\ result[p].kind = "Ok"
        /\ sharedLock.exists /\ RecordsLivePid(sharedLock.content)

C4_LockReleasedOnReturn ==
    [][\A p \in Procs :
        (pc[p] \in HoldingPcs /\ pc'[p] = "returned")
        => /\ sharedLock' = NoFile
           /\ guard'[p] = "dropped"]_vars

\* a run that acquired the lock returned an error after a spawn failure,
\* its guard dropped
C4_Witness ==
    \E p \in Procs :
        /\ pc[p] = "returned"
        /\ guard[p] = "dropped"
        /\ result[p] = ErrResult("spawn")
        /\ Len(spawns[p]) > 0

\* ------------------------------------------------- claims on the pair loop
\* the blocks of pair k's attempts in p's log, in the order written
AttemptsOf(p, k) ==
    LET IsAttempt(e) == e.t = "attempt" /\ e.idx = k
    IN  SelectSeq(log[p].entries, IsAttempt)

AllAttempts(p) ==
    LET IsAttempt(e) == e.t = "attempt"
    IN  SelectSeq(log[p].entries, IsAttempt)

PairSections(p) ==
    LET IsPair(e) == e.t = "pair"
    IN  SelectSeq(log[p].entries, IsPair)

\* the part of the log between the header and the footer
LogBody(p) ==
    LET InBody(e) == e.t \in {"pair", "attempt", "note"}
    IN  SelectSeq(log[p].entries, InBody)

\* p's run_job executed its pairs and produced a RunResult
FinishedOk(p) ==
    /\ pc[p] \in {"drop", "returned"}
    /\ result[p].kind = "Ok"
    /\ result[p].log_file # None

\* the exit code of the last attempt of pair k
PairFinalExit(p, k) == AttemptsOf(p, k)[Len(AttemptsOf(p, k))].exit

FailingPairs(p) == {k \in 1..Len(Pairs(p)) : PairFinalExit(p, k) # 0}

AttemptLabels ==
    <<"attempt=normal", "attempt=retry_after_lock_cleanup",
      "attempt=resync_recovery">>

LabelRank(label) == CHOOSE i \in 1..Len(AttemptLabels) : AttemptLabels[i] = label

\* C5 (as claimed): the aggregate exit code is the final exit code of the
\* first failing pair in configured order.
C5_FirstFailingPairWins ==
    \A p \in Procs :
        (FinishedOk(p) /\ FailingPairs(p) # {}) =>
            result[p].exit_code =
                PairFinalExit(p, CHOOSE k \in FailingPairs(p) :
                                    \A m \in FailingPairs(p) : k <= m)

\* C6: the exit code of a run that executed its pairs is 0 exactly when the
\* last attempt of every pair exited 0, and a subprocess killed by a signal
\* is recorded with the non-zero code -1.
C6_ZeroIffAllPairsSucceed ==
    \A p \in Procs :
        FinishedOk(p) =>
            /\ (result[p].exit_code = 0) <=>
                    (\A k \in 1..Len(Pairs(p)) : PairFinalExit(p, k) = 0)
            /\ Len(AllAttempts(p)) = Len(spawns[p])
            /\ \A j \in 1..Len(spawns[p]) :
                    /\ ~spawns[p][j].st.exited => AllAttempts(p)[j].exit = -1
                    /\ spawns[p][j].st.exited =>
                            AllAttempts(p)[j].exit = spawns[p][j].st.code

\* the first pair ended with a subprocess killed by a signal, the second
\* pair succeeded, and the run reports the failure
C6_Witness ==
    \E p \in Procs :
        /\ FinishedOk(p)
        /\ Len(Pairs(p)) = 2
        /\ ~spawns[p][Len(AttemptsOf(p, 1))].st.exited
        /\ PairFinalExit(p, 1) = -1
        /\ PairFinalExit(p, 2) = 0
        /\ result[p].exit_code = -1

\* C7: a failed pair does not end the loop: the pairs are run one after the
\* other in configured order, each exactly once, and a run that produced a
\* RunResult has run every configured pair.
C7_EveryPairRunsInOrder ==
    \A p \in Procs :
        /\ \A i, j \in 1..Len(LogBody(p)) :
                i < j => LogBody(p)[i].idx <= LogBody(p)[j].idx
        /\ \A i, j \in 1..Len(spawns[p]) :
                i < j => spawns[p][i].idx <= spawns[p][j].idx
        /\ \A i \in 1..Len(PairSections(p)) : PairSections(p)[i].idx = i
        /\ \A i \in 1..Len(log[p].entries) :
                log[p].entries[i].t = "attempt" =>
                    \E j \in 1..(i - 1) :
                        /\ log[p].entries[j].t = "pair"
                        /\ log[p].entries[j].idx = log[p].entries[i].idx
        /\ FinishedOk(p) =>
                /\ Len(PairSections(p)) = Len(Pairs(p))
                /\ \A k \in 1..Len(Pairs(p)) : AttemptsOf(p, k) # <<>>

\* the first of two pairs used up its three attempts and failed, and the
\* second pair was run all the same
C7_Witness ==
    \E p \in Procs :
        /\ FinishedOk(p)
        /\ Len(Pairs(p)) = 2
        /\ Len(AttemptsOf(p, 1)) = Len(AttemptLabels)
        /\ PairFinalExit(p, 1) # 0
        /\ AttemptsOf(p, 2) # <<>>

\* the attempts of every pair are bounded: at most normal, then
\* retry_after_lock_cleanup, then resync_recovery, each at most once; only
\* the resync attempt carries --resync; a job of N pairs starts at most 3*N
\* subprocesses
C8_Bounded ==
    \A p \in Procs :
        /\ \A k \in 1..Len(Pairs(p)) :
            LET a == AttemptsOf(p, k)
                sp == {j \in 1..Len(spawns[p]) : spawns[p][j].idx = k}
            IN  /\ Len(a) <= Len(AttemptLabels)
                /\ Cardinality(sp) <= Len(AttemptLabels)
                /\ a # <<>> => a[1].label = AttemptLabels[1]
                /\ \A i \in 1..Len(a) : \E r \in 1..Len(AttemptLabels) :
                        a[i].label = AttemptLabels[r]
                /\ \A i, j \in 1..Len(a) :
                        i < j => LabelRank(a[i].label) < LabelRank(a[j].label)
                /\ \A j, m \in sp :
                        (j < m /\ spawns[p][j].extra = <<"--resync">>) => FALSE
        /\ \A j \in 1..Len(spawns[p]) : spawns[p][j].idx \in 1..Len(Pairs(p))
        /\ Len(spawns[p]) <= Len(AttemptLabels) * Len(Pairs(p))

InRun(p) == pc[p] \notin {"idle", "returned", "dead"}

\* C8: retries are bounded (C8_Bounded), and so a run_job call whose
\* subprocesses all end returns, unless its process is terminated.
C8_BoundedRetries ==
    /\ []C8_Bounded
    /\ \A p \in Procs : InRun(p) ~> ~InRun(p)

\* a pair went through all three attempts, the last one with --resync
C8_Witness ==
    \E p \in Procs :
        /\ pc[p] = "returned"
        /\ FinishedOk(p)
        /\ Len(Pairs(p)) = 2
        /\ Len(spawns[p]) = Len(AttemptLabels) * Len(Pairs(p))
        /\ spawns[p][Len(AttemptLabels)].extra = <<"--resync">>

\* C9: no attempt of a pair follows an attempt of that pair that exited 0.
C9_NoAttemptAfterSuccess ==
    \A p \in Procs :
        \A i, j \in 1..Len(log[p].entries) :
            LET a == log[p].entries[i]
                b == log[p].entries[j]
            IN  (i < j /\ a.t = "attempt" /\ b.t = "attempt" /\ a.idx = b.idx)
                    => a.exit # 0

\* a lock-cleanup retry exited 0 with an output that holds a recovery phrase
\* and names a prior lock file, and the pair ended there
C9_Witness ==
    \E p \in Procs :
        /\ pc[p] = "pair_end"
        /\ Len(AttemptsOf(p, run[p].idx)) = 2
        /\ run[p].exit_code = 0
        /\ needs_resync(run[p].last_stdout, run[p].last_stderr)
        /\ detect_prior_lock_file(run[p].last_stdout, run[p].last_stderr) # None
        /\ cfg[p].auto_resync

\* p's step out of the lock-cleanup decision of the current pair
CleanupStep(p) ==
    /\ pc[p] = "cleanup"
    /\ pc'[p] # "cleanup"
    /\ pc'[p] # "dead"

\* the first attempt of p's current pair failed and its output names a path
FirstAttemptNamesLock(p) ==
    /\ run[p].exit_code # 0
    /\ detect_prior_lock_file(run[p].last_stdout, run[p].last_stderr) # None

\* the step started one more subprocess for the same pair without extra
\* flags, or tried to and the spawn failed
RetriedPlain(p) ==
    \/ /\ Len(spawns'[p]) = Len(spawns[p]) + 1
       /\ spawns'[p][Len(spawns'[p])].idx = run[p].idx
       /\ spawns'[p][Len(spawns'[p])].extra = <<>>
       /\ \/ /\ pc'[p] = "resync"
             /\ log'[p].entries =
                    Append(log[p].entries,
                           LogEntry("attempt", run[p].idx, AttemptLabels[2],
                                    run'[p].exit_code))
          \/ /\ pc'[p] = "drop"
             /\ result'[p] = ErrResult("io")
    \/ /\ spawns'[p] = spawns[p]
       /\ pc'[p] = "drop"
       /\ result'[p] = ErrResult("spawn")

\* C10 (as claimed): whenever the first attempt exits non-zero and its
\* output names a prior lock file, that file is removed and the attempt is
\* run again, once, without extra flags.
C10_Original ==
    [][\A p \in Procs :
        (CleanupStep(p) /\ FirstAttemptNamesLock(p))
        => /\ run'[p].lock_removed = "removed"
           /\ RetriedPlain(p)]_vars

\* C10 (amended): when the first attempt exits non-zero and its output names
\* a prior lock file, remove_stale_lock_file is applied to that path; the
\* attempt is run again (once, without extra flags, logged as
\* retry_after_lock_cleanup) exactly when it reports the file removed, and
\* when it removes nothing the pair goes on to the resync check with no
\* further subprocess.  In every other case nothing is removed or re-run.
C10_RetryOnlyAfterRemoval ==
    [][\A p \in Procs : CleanupStep(p) =>
        IF FirstAttemptNamesLock(p)
        THEN \/ /\ run'[p].lock_removed = "removed"
                /\ RetriedPlain(p)
             \/ /\ run'[p].lock_removed = "kept"
                /\ spawns'[p] = spawns[p]
                /\ log'[p] = log[p]
                /\ pc'[p] = "resync"
        ELSE /\ run'[p].lock_removed = None
             /\ spawns'[p] = spawns[p]
             /\ log'[p] = log[p]
             /\ pc'[p] = "resync"]_vars

\* a first attempt failed naming a prior lock file, the file was removed and
\* the retry was run and logged
C10_Witness ==
    \E p \in Procs :
        /\ pc[p] = "resync"
        /\ run[p].lock_removed = "removed"
        /\ Len(AttemptsOf(p, run[p].idx)) = 2
        /\ AttemptsOf(p, run[p].idx)[1].exit # 0
        /\ AttemptsOf(p, run[p].idx)[2].label = AttemptLabels[2]
        /\ spawns[p][Len(spawns[p])].extra = <<>>

\* ------------------------------------------------- claims on recorded output
\* what the subprocesses of pair k ended with, in execution order
TraceOf(p, k) ==
    LET OfPair(e) == e.idx = k
    IN  SelectSeq(trace[p], OfPair)

\* the pairs whose loop body p's run has completed
PairsDone(p) == 1..(run[p].idx - 1)

\* the attempt failed and its output holds a recovery-signal phrase
FailedWithSignal(e) ==
    /\ e.code # 0
    /\ \E ph \in RecoveryPhrases :
        \E k \in 1..Len(e.out.stdout \o e.out.stderr) :
            LineContains((e.out.stdout \o e.out.stderr)[k], ph)

IsResyncAttempt(e) == e.label = AttemptLabels[3] /\ e.extra = <<"--resync">>

\* the log holds the auto_resync=false note for pair k
HasNote(p, k) ==
    \E i \in 1..Len(log[p].entries) :
        log[p].entries[i].t = "note" /\ log[p].entries[i].idx = k

\* the last attempt of pair k that is not the resync attempt: the attempt
\* the resync decision looks at
Decisive(p, k) ==
    LET t == TraceOf(p, k)
    IN  IF t[Len(t)].label = AttemptLabels[3] THEN Len(t) - 1 ELSE Len(t)

\* C11 (as claimed): whenever an attempt of a pair fails with a
\* recovery-signal phrase in its output, then with auto_resync exactly one
\* more attempt of that pair follows and it carries --resync, and without
\* auto_resync no attempt follows, a note is in the log and the pair ends
\* with that attempt's exit code.
C11_Original ==
    \A p \in Procs : \A k \in PairsDone(p) :
        LET t == TraceOf(p, k)
        IN  \A i \in 1..Len(t) :
                FailedWithSignal(t[i]) =>
                    IF cfg[p].auto_resync
                    THEN Len(t) = i + 1 /\ IsResyncAttempt(t[i + 1])
                    ELSE /\ Len(t) = i
                         /\ HasNote(p, k)
                         /\ PairFinalExit(p, k) = t[i].code

\* C11 (amended): the resync decision looks at the latest plain attempt of the
\* pair only (the first attempt, or the lock-cleanup retry when one was
\* made).  When that attempt failed with a recovery-signal phrase in its
\* output: with auto_resync exactly one more attempt follows, it carries
\* --resync and it is the pair's last attempt whatever it ends with; without
\* auto_resync no attempt follows, a note is in the log and the pair ends
\* with that attempt's exit code.  Otherwise there is neither a --resync
\* attempt nor a note.
C11_ResyncOnLatestAttempt ==
    \A p \in Procs : \A k \in PairsDone(p) :
        LET t == TraceOf(p, k)
            d == Decisive(p, k)
            resyncs == {i \in 1..Len(t) :
                            t[i].label = AttemptLabels[3]
                                \/ t[i].extra # <<>>}
        IN  /\ d \in 1..Len(t)
            /\ \A i \in 1..d : t[i].extra = <<>>
            /\ IF FailedWithSignal(t[d])
               THEN IF cfg[p].auto_resync
                    THEN /\ Len(t) = d + 1
                         /\ IsResyncAttempt(t[d + 1])
                         /\ resyncs = {d + 1}
                         /\ ~HasNote(p, k)
                         /\ PairFinalExit(p, k) = t[d + 1].code
                    ELSE /\ Len(t) = d
                         /\ resyncs = {}
                         /\ HasNote(p, k)
                         /\ PairFinalExit(p, k) = t[d].code
               ELSE /\ Len(t) = d
                    /\ resyncs = {}
                    /\ ~HasNote(p, k)

\* a failed attempt asked for a resync and was followed by the --resync
\* attempt, which failed asking for a resync again and was the pair's last
C11_Witness ==
    \E p \in Procs :
        /\ pc[p] = "returned"
        /\ FinishedOk(p)
        /\ cfg[p].auto_resync
        /\ \E k \in PairsDone(p) :
            LET t == TraceOf(p, k)
            IN  /\ Len(t) = 2
                /\ FailedWithSignal(t[1])
                /\ IsResyncAttempt(t[2])
                /\ FailedWithSignal(t[2])

\* what the last attempt of pair k ended with
LastOf(p, k) ==
    LET t == TraceOf(p, k)
    IN  t[Len(t)]

\* the output (stdout or stderr, chosen by f) of the last attempt of each of
\* the first n pairs, in pair order, with one empty line wherever a
\* non-empty output follows a non-empty text
RECURSIVE FinalOutputs(_, _, _)
FinalOutputs(p, n, f) ==
    IF n = 0 THEN <<>>
    ELSE LET before == FinalOutputs(p, n - 1, f)
             last == LastOf(p, n).out[f]
         IN  IF before = <<>> THEN last
             ELSE IF last = <<>> THEN before
             ELSE before \o << <<>> >> \o last

\* the exit codes the last attempts of the completed pairs ended with
FinalCodes(p) == {LastOf(p, k).code : k \in PairsDone(p)}

\* C12: what a pair adds to the aggregate is exactly the exit code, stdout
\* and stderr of its last attempt: the combined stdout and stderr are the
\* last attempts' outputs of the completed pairs, joined, and nothing else, the
\* aggregate exit code is 0 when all of them exited 0 and otherwise the
\* non-zero code of a pair's last attempt, and every attempt, also an
\* earlier one, has its block in the log.
C12_PairContributesLastAttempt ==
    \A p \in Procs :
        LET n == run[p].idx - 1
            out == FinalOutputs(p, n, "stdout")
            err == FinalOutputs(p, n, "stderr")
            codes == FinalCodes(p)
        IN  /\ run[p].combined_stdout = out
            /\ run[p].combined_stderr = err
            /\ IF codes \subseteq {0} THEN run[p].final_exit = 0
               ELSE run[p].final_exit \in codes \ {0}
            /\ \A k \in 1..n :
                LET a == AttemptsOf(p, k)
                    t == TraceOf(p, k)
                IN  /\ Len(a) = Len(t)
                    /\ \A i \in 1..Len(t) :
                        a[i].exit = t[i].code /\ a[i].label = t[i].label
            /\ FinishedOk(p) =>
                /\ n = Len(Pairs(p))
                /\ result[p].stdout = out
                /\ result[p].stderr = err
                /\ result[p].exit_code = run[p].final_exit

\* a pair of a finished run went through three attempts whose outputs all
\* differ, and the result holds the output of the third only
C12_Witness ==
    \E p \in Procs :
        /\ FinishedOk(p)
        /\ Len(Pairs(p)) = 1
        /\ Len(TraceOf(p, 1)) = 3
        /\ TraceOf(p, 1)[1].out # TraceOf(p, 1)[3].out
        /\ TraceOf(p, 1)[2].out # TraceOf(p, 1)[3].out
        /\ TraceOf(p, 1)[1].out # TraceOf(p, 1)[2].out
        /\ result[p].stderr = TraceOf(p, 1)[3].out.stderr
        /\ result[p].stdout = TraceOf(p, 1)[3].out.stdout

\* the outputs of the last attempts of the first n pairs, one directly after
\* the other
RECURSIVE FlatOutputs(_, _, _)
FlatOutputs(p, n, f) ==
    IF n = 0 THEN <<>>
    ELSE FlatOutputs(p, n - 1, f) \o LastOf(p, n).out[f]

\* the log has exactly one pair section per configured pair, in pair order
OneSectionPerPair(p) ==
    /\ Len(PairSections(p)) = Len(Pairs(p))
    /\ \A k \in 1..Len(Pairs(p)) : PairSections(p)[k].idx = k

\* when exactly one pair failed, the result carries that pair's exit code
SingleFailureReported(p) ==
    \A k \in 1..Len(Pairs(p)) :
        (LastOf(p, k).code # 0
            /\ \A m \in 1..Len(Pairs(p)) : m # k => LastOf(p, m).code = 0)
        => result[p].exit_code = LastOf(p, k).code

\* C13 (as claimed): the stdout and the stderr of the result are the
\* concatenation, in pair order, of the pairs' final outputs, the log has
\* one pair section per configured pair in that order, and a single failing
\* pair gives the result its exit code.
C13_Original ==
    \A p \in Procs :
        FinishedOk(p) =>
            /\ result[p].stdout = FlatOutputs(p, Len(Pairs(p)), "stdout")
            /\ result[p].stderr = FlatOutputs(p, Len(Pairs(p)), "stderr")
            /\ OneSectionPerPair(p)
            /\ SingleFailureReported(p)

\* C13 (amended): the stdout and the stderr of the result hold, in pair
\* order, the final output of every pair, with one newline put in wherever a
\* non-empty output is added to a non-empty text; the log has one pair
\* section per configured pair in that order, and a single failing pair
\* gives the result its exit code.
C13_OutputsJoinedInPairOrder ==
    \A p \in Procs :
        FinishedOk(p) =>
            /\ result[p].stdout = FinalOutputs(p, Len(Pairs(p)), "stdout")
            /\ result[p].stderr = FinalOutputs(p, Len(Pairs(p)), "stderr")
            /\ OneSectionPerPair(p)
            /\ SingleFailureReported(p)

\* two pairs, the first succeeded and the second failed, both wrote to
\* stdout and to stderr, and the result holds the second pair's exit code
C13_Witness ==
    \E p \in Procs :
        /\ FinishedOk(p)
        /\ Len(Pairs(p)) = 2
        /\ LastOf(p, 1).code = 0
        /\ LastOf(p, 2).code # 0
        /\ LastOf(p, 1).out.stderr # <<>>
        /\ LastOf(p, 2).out.stderr # <<>>
        /\ LastOf(p, 1).out.stderr # LastOf(p, 2).out.stderr
        /\ result[p].exit_code = LastOf(p, 2).code
        /\ Len(PairSections(p)) = 2

\* ------------------------------------------------------ claims on errors
\* positions of run_job at which an attempt may start
AttemptPcs == {"pair", "cleanup", "resync"}

\* C14: a subprocess that cannot be started in any attempt of any pair
\* unwinds the run: run_job goes straight to the release of the lock and
\* returns the error, starting no further subprocess and writing nothing
\* more to the log; a subprocess that ran, whatever its exit code, never
\* produces that error, and the run then fails only if its block cannot be
\* written to the log.
C14_SpawnFailureUnwinds ==
    [][\A p \in Procs :
        /\ (pc[p] \in AttemptPcs /\ pc'[p] # "dead"
                /\ result'[p].error = "spawn")
            => /\ result'[p] = ErrResult("spawn")
               /\ pc'[p] = "drop"
               /\ guard'[p] = "held"
               /\ spawns'[p] = spawns[p]
        /\ (pc[p] = "drop" /\ result[p].kind = "Err"
                /\ pc'[p] \notin {"drop", "dead"})
            => /\ pc'[p] = "returned"
               /\ guard'[p] = "dropped"
               /\ ~sharedLock'.exists
               /\ result'[p] = result[p]
               /\ spawns'[p] = spawns[p]
               /\ log'[p] = log[p]
        /\ (pc[p] \in AttemptPcs /\ Len(spawns'[p]) > Len(spawns[p]))
            => /\ result'[p].error # "spawn"
               /\ result'[p].kind = "Err"
                    <=> Len(AllAttempts(p)') = Len(AllAttempts(p))
       ]_vars

\* the --resync attempt of the second pair, after a lock-cleanup retry,
\* could not be started: run_job returned the error and the lock is released
C14_Witness ==
    \E p \in Procs :
        /\ pc[p] = "returned"
        /\ result[p] = ErrResult("spawn")
        /\ guard[p] = "dropped"
        /\ ~sharedLock.exists
        /\ run[p].idx = 2
        /\ run[p].lock_removed = "removed"
        /\ cfg[p].auto_resync
        /\ Len(AttemptsOf(p, 2)) = 2
        /\ AttemptsOf(p, 2)[2].exit # 0
        /\ \E j \in 1..Len(spawns[p]) :
                spawns[p][j].idx = 1 /\ ExitCodeOf(spawns[p][j].st) # 0

\* p is the only process there is
Alone(p) == \A q \in Procs : q # p => pc[q] = "dead"

\* C15: run_job called with a job that validation rejects returns the
\* configuration error at once: the stale-lock pre-clean does not run, the
\* lock file is neither read, created nor deleted, no log file is created
\* and no subprocess is started.
C15_ConfigErrorFirst ==
    /\ [](\A p \in Procs :
            cfg[p] \in BadConfigs => pc[p] \in {"idle", "returned", "dead"})
    /\ [][\A p \in Procs :
            (cfg[p] \in BadConfigs /\ Alone(p) /\ pc[p] # "dead")
            => /\ pc'[p] = "returned"
               /\ result'[p] = ErrResult("config")
               /\ ~run'[p].precleaned
               /\ lockFile' = lockFile
               /\ existing'[p] = NoExisting
               /\ handle'[p] = "none"
               /\ guard'[p] = "none"
               /\ ~log'[p].created
               /\ spawns'[p] = <<>>
         ]_vars

\* a job that asks for the pre-clean but is rejected returned the
\* configuration error, and the stale lock file that was there still is
C15_Witness ==
    \E p \in Procs :
        /\ pc[p] = "returned"
        /\ cfg[p] \in BadConfigs
        /\ cfg[p].clean_bisync_locks
        /\ result[p] = ErrResult("config")
        /\ sharedLock = FileWith(PidLine(DeadPid))
        /\ ~run[p].precleaned


\* ------------------------------------------------ claims on pure functions
Blank(t) == Trim(t) = <<>>

IsAbsolute(t) == StartsWith(Trim(t), "/")

IsQualified(t) == Contains(Trim(t), ":")

PairSet(c) == {c.pairs[i] : i \in 1..Len(c.pairs)}

BasesSet(c) == ~Blank(c.local_path) /\ ~Blank(c.remote)

PairsFullySpecified(c) ==
    /\ c.pairs # <<>>
    /\ \A pr \in PairSet(c) : IsAbsolute(pr.local) /\ IsQualified(pr.remote)

Validated == call.fn = "validate_config"

\* C16 as stated: a configuration is accepted exactly when both base values
\* are set or every pair carries an absolute local path and a qualified
\* remote.
C16_Original ==
    Validated => (call.ret <=> BasesSet(call.arg) \/ PairsFullySpecified(call.arg))

\* C16: a configuration without pairs is accepted exactly when both base
\* values are non-blank; a configuration with pairs is accepted exactly when
\* each side is covered on its own: the base local path is non-blank or every
\* pair has an absolute local path, and the base remote is non-blank or every
\* pair has a colon-qualified remote.
C16_AcceptedPerSide ==
    Validated =>
        LET c == call.arg
        IN  call.ret <=>
              IF c.pairs = <<>> THEN BasesSet(c)
              ELSE /\ ~Blank(c.local_path)
                        \/ \A pr \in PairSet(c) : IsAbsolute(pr.local)
                   /\ ~Blank(c.remote)
                        \/ \A pr \in PairSet(c) : IsQualified(pr.remote)

\* accepted although the base remote is missing and a pair's local path is
\* relative: the base covers the local side, the pairs cover the remote side
C16_Witness ==
    /\ Validated
    /\ call.ret
    /\ ~Blank(call.arg.local_path)
    /\ Blank(call.arg.remote)
    /\ \E pr \in PairSet(call.arg) : ~IsAbsolute(pr.local)


PairsResolved == call.fn = "pairs"

\* C17: a job without explicit pairs and with both base values set runs
\* exactly one pair, (base local, base remote); a job with explicit pairs runs
\* the configured list, same length and same order, and no base pair is
\* added to it.
C17_PairList ==
    PairsResolved =>
        LET c == call.arg
            ps == call.ret
        IN  /\ c.pairs = <<>> /\ c.local_path # <<>> /\ c.remote # <<>> =>
                /\ Len(ps) = 1
                /\ ps[1].local = c.local_path
                /\ ps[1].remote = c.remote
            /\ c.pairs # <<>> =>
                /\ Len(ps) = Len(c.pairs)
                /\ \A i \in 1..Len(ps) : ps[i] = c.pairs[i]

\* two explicit pairs next to a full base pair: the list run is the two pairs
C17_Witness ==
    /\ PairsResolved
    /\ BasesSet(call.arg)
    /\ Len(call.arg.pairs) = 2
    /\ call.arg.pairs[1] # call.arg.pairs[2]
    /\ Len(call.ret) = 2


PathsResolved == call.fn = "resolve_pair_paths"

Slashes(n) == [i \in 1..n |-> "/"]

\* base is stem followed by nothing but '/' characters, and stem has none
\* at its end
StemOf(stem, base) ==
    /\ ~EndsWith(stem, "/")
    /\ Len(stem) <= Len(base)
    /\ base = stem \o Slashes(Len(base) - Len(stem))

\* the base without the '/' characters at its end
Stem(base) ==
    CHOOSE stem \in {SubSeq(base, 1, n) : n \in 0..Len(base)} :
        StemOf(stem, base)

\* what is left of joined when the last n characters are taken off
Front(joined, n) == SubSeq(joined, 1, Len(joined) - n)

\* the last n characters of joined
Back(joined, n) == SubSeq(joined, Len(joined) - n + 1, Len(joined))

\* joined is the base, cut back to its stem, then sep, then value
JoinedWith(joined, base, sep, value) ==
    /\ Len(joined) >= Len(sep) + Len(value)
    /\ Back(joined, Len(value)) = value
    /\ Back(Front(joined, Len(value)), Len(sep)) = sep
    /\ StemOf(Front(joined, Len(sep) + Len(value)), base)

\* C18 as stated: a pair local beginning with '/' resolves to itself
\* unchanged, an empty one to the base local path, any other value to the
\* base, one '/', and the value.
C18_Original ==
    PathsResolved =>
        LET base == call.arg.cfg.local_path
            value == call.arg.pair.local
            local == call.ret[1]
        IN  /\ StartsWith(value, "/") => local = value
            /\ value = <<>> => local = base
            /\ value # <<>> /\ ~StartsWith(value, "/") =>
                   JoinedWith(local, base, <<"/">>, value)

\* C18: with the pair local trimmed of surrounding whitespace first, a value
\* beginning with '/' resolves to itself whatever the base is, an empty value
\* resolves to the base local path as it is written, and any other value
\* resolves to the base without its trailing '/' characters, one '/', and
\* the value.
C18_LocalResolution ==
    PathsResolved =>
        LET base == call.arg.cfg.local_path
            value == Trim(call.arg.pair.local)
            local == call.ret[1]
        IN  /\ StartsWith(value, "/") => local = value
            /\ value = <<>> => local = base
            /\ value # <<>> /\ ~StartsWith(value, "/") =>
                   JoinedWith(local, base, <<"/">>, value)

\* a relative value written with a leading blank, under a base that ends in
\* '/': one separator, no blank
C18_Witness ==
    /\ PathsResolved
    /\ call.arg.cfg.local_path = <<"a", "/">>
    /\ call.arg.pair.local = <<" ", "a">>
    /\ call.ret[1] = <<"a", "/", "a">>


\* C19 as stated: a pair remote containing ':' resolves to itself unchanged,
\* an empty one to the base remote, any other value is appended to the base
\* directly when the base ends in ':' and after a single '/' otherwise.
C19_Original ==
    PathsResolved =>
        LET base == call.arg.cfg.remote
            value == call.arg.pair.remote
            remote == call.ret[2]
        IN  /\ Contains(value, ":") => remote = value
            /\ value = <<>> => remote = base
            /\ value # <<>> /\ ~Contains(value, ":") =>
                   IF EndsWith(base, ":") THEN remote = base \o value
                   ELSE JoinedWith(remote, base, <<"/">>, value)

\* C19: with the pair remote trimmed of surrounding whitespace first, a
\* value containing ':' resolves to itself, an empty value resolves to the
\* base remote as it is written, and any other value is appended to the base
\* without its trailing '/' characters: directly when what is left ends in
\* ':', after one '/' otherwise.
C19_RemoteResolution ==
    PathsResolved =>
        LET base == call.arg.cfg.remote
            value == Trim(call.arg.pair.remote)
            remote == call.ret[2]
        IN  /\ Contains(value, ":") => remote = value
            /\ value = <<>> => remote = base
            /\ value # <<>> /\ ~Contains(value, ":") =>
                   IF EndsWith(Stem(base), ":")
                   THEN remote = Stem(base) \o value
                   ELSE remote = Stem(base) \o <<"/">> \o value

\* a suffix under a base remote written ":/": the '/' is dropped and the
\* suffix follows the ':' directly
C19_Witness ==
    /\ PathsResolved
    /\ call.arg.cfg.remote = <<":", "/">>
    /\ call.arg.pair.remote = <<"a">>
    /\ call.ret[2] = <<":", "a">>


Built == call.fn = "build_command"

\* the words the launcher is given ahead of the tool's own arguments
WrapperWords ==
    << <<"-n">>, <<"19">>, <<"ionice">>, <<"-c">>, <<"3">>, <<"rclone">> >>

Wrapped(cmd) ==
    /\ cmd.program = <<"nice">>
    /\ Len(cmd.args) >= Len(WrapperWords)
    /\ SubSeq(cmd.args, 1, Len(WrapperWords)) = WrapperWords

\* the arguments the sync tool itself receives
ToolArgs(cmd) ==
    IF Wrapped(cmd)
    THEN SubSeq(cmd.args, Len(WrapperWords) + 1, Len(cmd.args))
    ELSE cmd.args

\* '--config <path>' for a path that is set and not blank, nothing otherwise
ConfigArgs(path) ==
    IF path.some /\ ~Blank(path.val)
    THEN << <<"--config">>, Trim(path.val) >> ELSE <<>>

\* C20: the tool receives bisync, the resolved local, the resolved remote,
\* then '--config <path>' only when a non-blank config path is set, then the
\* user's extra arguments in configured order, then the recovery arguments;
\* the command is wrapped in the reduced-priority launcher exactly when the
\* policy flag is set and both nice and ionice exist, it is the tool itself
\* otherwise, and the tool's arguments are the same either way.
C20_Invocation ==
    Built =>
        LET a == call.arg
            cmd == call.ret
        IN  /\ ToolArgs(cmd) =
                  << <<"bisync">>, a.local, a.remote >>
                    \o ConfigArgs(a.cfg.rclone_config_path)
                    \o a.cfg.extra_args \o a.extra_args
            /\ Wrapped(cmd) <=>
                  /\ a.cfg.use_nice_ionice
                  /\ <<"nice">> \in a.found
                  /\ <<"ionice">> \in a.found
            /\ ~Wrapped(cmd) => cmd.program = <<"rclone">>

\* a wrapped resync invocation with a config path written with blanks around
\* it and two user arguments
C20_Witness ==
    /\ Built
    /\ Wrapped(call.ret)
    /\ call.arg.cfg.rclone_config_path = SomePath(<<" ", "c", " ">>)
    /\ Len(call.arg.cfg.extra_args) = 2
    /\ call.arg.extra_args = << <<"--resync">> >>
    /\ Len(ToolArgs(call.ret)) = 8


Cleaned == call.fn = "clean_bisync_locks"

\* the directory could be listed and every delete went through
Cooperative(e) == e.home /\ e.is_dir /\ e.listed /\ e.remove_ok

\* the pid is dead or, with no pid recorded, the file is older than 60 minutes
ClearlyStale(f) == IF f.pid # None THEN f.pid = "dead" ELSE f.old

StaleRemoved == call.fn = "remove_stale_lock_file"

\* the reported file seen as an entry of the lock directory
AsDirFile(lck) == [lck |-> TRUE, pid |-> lck.pid, old |-> lck.old]

\* the pre-run cleaner, on the same host, deletes a .lck file in this state
CleanerDeletes(lck, e) ==
    AsDirFile(lck) \in
        clean_bisync_locks({AsDirFile(lck)},
                           [e EXCEPT !.home = TRUE, !.is_dir = TRUE,
                                     !.listed = TRUE]).removed

\* C22 as stated: the mid-run removal deletes the reported file exactly
\* when the pre-run cleaner would delete a .lck file in the same state.
C22_Original ==
    StaleRemoved /\ call.arg.lck.exists =>
        (call.ret.gone <=> CleanerDeletes(call.arg.lck, call.arg.env))

\* C22: the mid-run removal deletes the reported file only when the pre-run
\* cleaner would delete a .lck file in the same state, and it keeps a file
\* the cleaner would delete in exactly three states: no sync-tool process
\* detected and the pid alive; no sync-tool process detected, no pid and the
\* file younger than 60 minutes; a sync-tool process detected, no pid and
\* the file older than 60 minutes.
C22_MidRunRemovalIsStricter ==
    StaleRemoved /\ call.arg.lck.exists =>
        LET lck == call.arg.lck
            e == call.arg.env
            cleaner == CleanerDeletes(lck, e)
        IN  /\ call.ret.gone => cleaner
            /\ cleaner /\ ~call.ret.gone <=>
                  /\ e.remove_ok
                  /\ \/ ~e.running /\ lck.pid = "alive"
                     \/ ~e.running /\ lck.pid = None /\ ~lck.old
                     \/ e.running /\ lck.pid = None /\ lck.old

\* an old file without a pid while a sync-tool process is detected: kept
\* mid-run, although the cleaner would delete it
C22_Witness ==
    /\ StaleRemoved
    /\ call.arg.lck = [exists |-> TRUE, pid |-> None, old |-> TRUE]
    /\ call.arg.env.running
    /\ call.arg.env.remove_ok
    /\ ~call.ret.reported
    /\ CleanerDeletes(call.arg.lck, call.arg.env)


\* C23 as stated: a failure of the pre-run clean leaves run_job on its way to
\* the lock acquisition, and a failure inside the mid-run lock removal, a
\* failed delete included, leaves it on its way to the resync check with no
\* further attempt, as if nothing had been removed.
C23_Original ==
    [][\A p \in Procs :
        /\ pc[p] \in {"idle", "returned"} /\ run'[p].preclean_failed =>
              pc'[p] = "acquire" /\ result'[p] = NoResult
        /\ pc[p] = "cleanup" /\ run'[p].unlink_failed =>
              /\ pc'[p] = "resync"
              /\ spawns'[p] = spawns[p]
              /\ result'[p] = result[p]]_vars

\* C23: a failure of the pre-run clean leaves run_job on its way to the lock
\* acquisition with no error; a mid-run removal that removes nothing,
\* whatever went wrong inside it, leaves run_job on its way to the resync
\* check with no further attempt and no error; a mid-run removal whose
\* delete fails still counts as a removal: the attempt is run again, and the
\* only error that step can return is that of a subprocess that could not
\* be started.
C23_HousekeepingSwallowed ==
    [][\A p \in Procs :
        /\ pc[p] \in {"idle", "returned"} /\ run'[p].preclean_failed =>
              pc'[p] = "acquire" /\ result'[p] = NoResult
        /\ pc[p] = "cleanup" /\ pc'[p] \notin {"cleanup", "dead"}
                /\ run'[p].lock_removed # "removed" =>
              /\ pc'[p] = "resync"
              /\ spawns'[p] = spawns[p]
              /\ result'[p] = result[p]
        /\ pc[p] = "cleanup" /\ run'[p].unlink_failed =>
              /\ run'[p].lock_removed = "removed"
              /\ \/ /\ pc'[p] = "resync"
                    /\ Len(spawns'[p]) = Len(spawns[p]) + 1
                    /\ result'[p] = result[p]
                 \/ /\ pc'[p] = "drop"
                    /\ spawns'[p] = spawns[p]
                    /\ result'[p] = ErrResult("spawn")]_vars

\* the pre-run clean failed, the delete of the reported lock file failed,
\* the retry ran all the same and the run stands at the resync check
C23_Witness ==
    \E p \in Procs :
        /\ pc[p] = "resync"
        /\ run[p].preclean_failed
        /\ run[p].unlink_failed
        /\ Len(spawns[p]) = 2
        /\ result[p] = NoResult


Counted == call.fn = "detect_changed_count"

\* the lines of stdout followed by those of stderr
AllLines(o) == o.stdout \o o.stderr

\* the count of a 'PathN: <count> changes:' line for the label, or None
ChangesOf(line, label) ==
    IF \E i \in 1..(Len(line) - 2) :
            /\ line[i] = Word(label)
            /\ IsNum(line[i + 1])
            /\ line[i + 2] \in ChangesWords
    THEN PathChange(line, label) ELSE NoCount

HasChangesLine(text) ==
    \E k \in 1..Len(text) :
        \E label \in {"Path1:", "Path2:"} : ChangesOf(text[k], label).some

\* the counts of all changes lines added up
RECURSIVE ChangesSum(_)
ChangesSum(text) ==
    IF text = <<>> THEN 0
    ELSE ChangesSum(Tail(text))
            + ChangesOf(Head(text), "Path1:").val
            + ChangesOf(Head(text), "Path2:").val

Least(a, b) == IF a < b THEN a ELSE b

\* C24 as stated: with at least one changes line in the output the derived
\* count is the sum of the counts of all changes lines.
C24_Original ==
    Counted /\ HasChangesLine(AllLines(call.arg)) =>
        call.ret = SomeCount(ChangesSum(AllLines(call.arg)))

\* C24: with at least one 'Path1:'/'Path2:' '<count> changes:' line anywhere
\* in stdout or stderr the derived count is the sum of the counts of all such
\* lines, held at the largest value of the counter type when the sum exceeds
\* it, whatever the Transferred: and Copied: lines say.
C24_ChangesSummed ==
    Counted /\ HasChangesLine(AllLines(call.arg)) =>
        call.ret = SomeCount(Least(ChangesSum(AllLines(call.arg)), CountMax))

\* 40 changes and 5 changes next to a finished Transferred: line give 45
C24_Witness ==
    /\ Counted
    /\ call.arg.stdout = <<ProgressLine("Transferred:", 5, 5, "100%")>>
    /\ call.arg.stderr = <<ChangesLine("Path1:", 40), ChangesLine("Path1:", 5)>>
    /\ call.ret = SomeCount(45)


\* a '<label> <done> / <total>, <percentage>' line
IsProgressLine(line, label) ==
    /\ Len(line) >= 6
    /\ line[1] = Word(label)
    /\ IsNum(line[2]) /\ line[3] = Word("/")
    /\ IsNum(line[4]) /\ line[5] = Word(",")

\* the progress line of the label that decides: the last one at 100% if
\* there is one, the last one otherwise; 0 when the label has none
DecidingLine(text, label) ==
    LET all == {k \in 1..Len(text) : IsProgressLine(text[k], label)}
        full == {k \in all : Has100(text[k])}
        from == IF full # {} THEN full ELSE all
    IN  IF all = {} THEN 0 ELSE CHOOSE k \in from : \A m \in from : m <= k

\* the fallback count when field f of the deciding lines is taken and the
\* two labels are added with add
Fallback(text, field(_), add(_, _)) ==
    LET t == DecidingLine(text, "Transferred:")
        c == DecidingLine(text, "Copied:")
    IN  IF t # 0 /\ c # 0 THEN SomeCount(add(field(text[t]), field(text[c])))
        ELSE IF t # 0 THEN SomeCount(field(text[t]))
        ELSE IF c # 0 THEN SomeCount(field(text[c]))
        ELSE NoCount

PlainAdd(a, b) == a + b

CappedAdd(a, b) == Least(a + b, CountMax)

\* the completed count and the total of a progress line
DoneOf(line) == line[2].n
TotalOf(line) == line[4].n

\* C25 as stated: without a changes line, each label yields the completed
\* count of its last 100% line, or of its last progress line when it has no
\* 100% line; both values are added, one is taken alone, none gives nothing.
C25_Original ==
    Counted /\ ~HasChangesLine(AllLines(call.arg)) =>
        call.ret = Fallback(AllLines(call.arg), DoneOf, PlainAdd)

\* C25: without a changes line, each of the labels Transferred: and Copied:
\* yields the number after the ' / ' (the total) of its last 100% progress
\* line, or of its last progress line at any percentage when it has no 100%
\* line; the result is the sum when both labels yield a value, held at the
\* largest value of the counter type, the single value when one does, and
\* absent when neither does.
C25_FallbackCount ==
    Counted /\ ~HasChangesLine(AllLines(call.arg)) =>
        call.ret = Fallback(AllLines(call.arg), TotalOf, CappedAdd)

\* a partial Transferred: line after a finished one, and a partial Copied:
\* line: the finished line's 5 and the partial line's total 40 give 45
C25_Witness ==
    /\ Counted
    /\ call.arg.stdout = <<ProgressLine("Transferred:", 5, 5, "100%"),
                           ProgressLine("Transferred:", 5, 40, "13%")>>
    /\ call.arg.stderr = <<ProgressLine("Copied:", 5, 40, "13%")>>
    /\ call.ret = SomeCount(45)


Previewed == call.fn = "preview_lines"

\* the non-empty lines of a text, trimmed, in their order
RECURSIVE NonEmptyLines(_)
NonEmptyLines(text) ==
    IF text = <<>> THEN <<>>
    ELSE (IF TrimWords(Head(text)) = <<>> THEN <<>>
          ELSE <<TrimWords(Head(text))>>) \o NonEmptyLines(Tail(text))

ExpectedError(r) ==
    LET lines == NonEmptyLines(r.stderr)
    IN  IF lines # <<>> THEN SomeText(lines[Len(lines)])
        ELSE SomeText(ExitText(r.exit_code))

\* the record after r was applied to the record before
Reflects(before, after, r) ==
    /\ after.last_run = SomeNumber(r.timestamp)
    /\ after.last_exit_code = SomeNumber(r.exit_code)
    /\ IF r.exit_code = 0
       THEN /\ after.last_success = SomeNumber(r.timestamp)
            /\ after.last_error = NoText
       ELSE /\ after.last_success = before.last_success
            /\ after.last_error = ExpectedError(r)

\* C26: every result run_sync applies to the status record and stores, in
\* any sequence of runs of the CLI and the applet, leaves the record
\* reflecting that result: last_run and last_exit_code are its own; on exit
\* 0 last_success is its timestamp and last_error is cleared; on a non-zero
\* exit last_success is unchanged and last_error is the last non-empty
\* stderr line, or "Exited with code N" when stderr is blank.
C26_RecordReflectsLatest ==
    [][notified'.applied # notified.applied
       => Reflects(status, status', notified'.applied)]_vars

\* the second result fails with blank stderr after a success: the record
\* keeps the success and names the code
C26_Witness ==
    /\ notified.applied.timestamp = 2
    /\ notified.applied.exit_code = 1
    /\ notified.applied.stderr = << <<Sp>> >>
    /\ status.last_run = SomeNumber(2)
    /\ status.last_success = SomeNumber(1)
    /\ status.last_error = SomeText(ExitText(1))


\* a run has finished and its notification was decided
RunFinished == notified.via # None /\ notified.outcome.kind # None

\* the run that finished last ended in error: run_job failed, or the
\* aggregate exit code is not 0
EndedInError ==
    notified.outcome.kind = "err" \/ notified.outcome.exit_code # 0

\* the changed count of the output of the run that finished last
ChangedByRun ==
    detect_changed_count(notified.outcome.stdout, notified.outcome.stderr)

SucceededWithChanges ==
    ~EndedInError /\ ChangedByRun.some /\ ChangedByRun.val > 0

\* C30: for every finished run, started by the CLI or by the applet's Sync
\* now, after any history of earlier runs: a run that ended in error sends
\* the critical "failed" notification, "completed" is sent only for a run
\* that succeeded with a changed count above 0, and a successful run with
\* no changes sends nothing.
C30_NotificationPolicy ==
    RunFinished =>
        /\ EndedInError => notified.sent = "failed"
        /\ notified.sent = "completed" => SucceededWithChanges
        /\ (~EndedInError /\ ~SucceededWithChanges) => notified.sent = None


\* C29: one log file per run: no file of the log directory was ever created
\* or written by more than one run, whether the runs are consecutive runs of
\* one job or concurrent runs of jobs with lock files of their own.
C29_OneLogPerRun ==
    \A s \in DOMAIN logdir.files : Cardinality(logdir.files[s].users) <= 1


\* the label of the k-th attempt of a pair, started with the arguments extra
ExpectedLabel(k, extra) ==
    IF extra # <<>> THEN "attempt=resync_recovery"
    ELSE IF k = 1 THEN "attempt=normal"
    ELSE "attempt=retry_after_lock_cleanup"

\* the subprocesses started for pair i among those in started, in their order
StartedFor(started, i) ==
    LET OfPair(a) == a.idx = i
    IN  SelectSeq(started, OfPair)

\* one block for each attempt of pair i, in the order of execution
ExpectedBlocks(started, i) ==
    LET mine == StartedFor(started, i)
    IN  [k \in 1..Len(mine) |->
            LogEntry("attempt", i, ExpectedLabel(k, mine[k].extra),
                     ExitCodeOf(mine[k].st))]

\* the sections of pairs i..n
RECURSIVE ExpectedSections(_, _, _)
ExpectedSections(started, i, n) ==
    IF i > n THEN <<>>
    ELSE <<LogEntry("pair", i, "", 0)>> \o ExpectedBlocks(started, i)
            \o ExpectedSections(started, i + 1, n)

\* the log without the notes about a resync that was not made
LogWithoutNotes(p) ==
    LET Kept(e) == e.t # "note"
    IN  SelectSeq(log[p].entries, Kept)

\* the blocks of all attempts in started, pair by pair
RECURSIVE AllBlocks(_, _, _)
AllBlocks(started, i, n) ==
    IF i > n THEN <<>>
    ELSE ExpectedBlocks(started, i) \o AllBlocks(started, i + 1, n)

ReturnedWithLog(p) == result[p].kind = "Ok" /\ result[p].log_file # None

CliRan == notified.via = "cli" /\ notified.outcome.kind # None

\* C31 as stated: the run command exits non-zero exactly when its run ended
\* in a hard failure or with a non-zero RunResult.exit_code.
C31_Original == CliRan => (notified.exited # 0 <=> EndedInError)

\* C31: the run command exits 0 exactly when run_job returned a result with
\* exit code 0, a skipped run included, and the updated status was stored;
\* it exits 1 when run_job failed, when the exit code is not 0, when the
\* status could not be stored, and when the job or its status could not be
\* loaded.
C31_ExitStatus ==
    [][(notified'.via = "cli"
        /\ (notified.via # "cli" \/ notified'.outcome # notified.outcome))
       => /\ notified'.exited \in {0, 1}
          /\ notified'.exited = 0 <=>
                /\ notified'.outcome.kind = "ok"
                /\ notified'.outcome.exit_code = 0
                /\ notified'.applied = notified'.outcome]_vars

\* the run command made a run that was skipped and exited 0 after a run
\* that had failed
C31_Witness ==
    /\ CliRan
    /\ notified.outcome = SkippedOutcome(2)
    /\ notified.exited = 0
    /\ status.last_run = SomeNumber(2)


\* C37: whenever run_sync applies and stores the result of a run skipped
\* because another instance holds the lock, the status records a
\* successful run: last_run and last_success are its timestamp,
\* last_exit_code is 0, last_error is cleared, and last_log_file,
\* last_changed_count and last_duration_secs are none, whatever they were.
C37_SkippedRunRecorded ==
    [][(notified'.applied # notified.applied
        /\ notified'.applied = SkippedOutcome(notified'.applied.timestamp))
       => /\ status'.last_run = SomeNumber(notified'.applied.timestamp)
          /\ status'.last_success = SomeNumber(notified'.applied.timestamp)
          /\ status'.last_exit_code = SomeNumber(0)
          /\ status'.last_error = NoText
          /\ status'.last_log_file = NoText
          /\ status'.last_changed_count = NoNumber
          /\ status'.last_duration_secs = NoNumber]_vars

\* the applet still shows the first run, a failure with a log file, five
\* changes and a duration; the second run was skipped and is stored
C37_Witness ==
    /\ notified.applied = SkippedOutcome(2)
    /\ applet.state.last_run = SomeNumber(1)
    /\ applet.state.last_error.some
    /\ applet.state.last_log_file.some
    /\ applet.state.last_changed_count = SomeNumber(5)
    /\ applet.state.last_duration_secs.some
    /\ status.last_run = SomeNumber(2)
    /\ status.last_success = SomeNumber(2)
    /\ ~status.last_log_file.some


\* the footer is in p's log
HasFooter(entries) == \E i \in 1..Len(entries) : entries[i].t = "footer"

\* the pre-clean was made exactly when the job enables it
PreCleanDone(p) == run[p].precleaned = cfg[p].clean_bisync_locks

\* C32: within one run_job call the steps come in the order validation,
\* stale-lock pre-clean (if enabled), lock acquisition, log file creation,
\* pair attempts, footer, lock release: the guard is taken only by a run
\* with a valid configuration whose pre-clean is done and which has no log
\* and no attempt yet; a run skipped as already running has made its
\* pre-clean too; the log is created under the guard before any attempt;
\* every attempt starts and ends under the guard, with the log created and
\* no footer yet; the footer is written under the guard; and the release
\* follows the footer of every run that returns a result.
C32_StepOrder ==
    [][\A p \in Procs :
        /\ (guard'[p] = "held" /\ guard[p] # "held") =>
                /\ validate_config(cfg[p])
                /\ PreCleanDone(p)
                /\ ~log[p].created
                /\ spawns[p] = <<>>
        /\ (pc[p] = "acquire" /\ pc'[p] = "returned") =>
                /\ PreCleanDone(p)
                /\ guard'[p] = "none"
                /\ ~log'[p].created
                /\ spawns'[p] = <<>>
        /\ (log'[p].created /\ ~log[p].created) =>
                /\ guard[p] = "held" /\ guard'[p] = "held"
                /\ spawns'[p] = <<>>
        /\ Len(spawns'[p]) > Len(spawns[p]) =>
                /\ guard[p] = "held" /\ guard'[p] = "held"
                /\ log[p].created
                /\ ~HasFooter(log'[p].entries)
        /\ (HasFooter(log'[p].entries) /\ ~HasFooter(log[p].entries)) =>
                /\ guard[p] = "held" /\ guard'[p] = "held"
                /\ spawns'[p] = spawns[p]
        /\ (guard'[p] = "dropped" /\ guard[p] = "held") =>
                /\ spawns'[p] = spawns[p]
                /\ log'[p] = log[p]
                /\ result[p].kind = "Ok" => HasFooter(log[p].entries)]_vars

\* one run was skipped as already running after its pre-clean, while the
\* holder of the lock has made an attempt and not yet written its footer
C32_Witness ==
    \E p, q \in Procs :
        /\ pc[p] = "returned"
        /\ existing[p].alive
        /\ run[p].precleaned
        /\ guard[p] = "none"
        /\ guard[q] = "held"
        /\ Len(spawns[q]) > 0
        /\ ~HasFooter(log[q].entries)


\* pair k of p's run had a lock-cleanup retry
Retried(p, k) ==
    /\ Len(TraceOf(p, k)) >= 2
    /\ TraceOf(p, k)[2].label = AttemptLabels[2]

\* a --resync attempt, or an attempt labelled as the resync recovery, was
\* made for pair k
Resynced(p, k) ==
    \E i \in 1..Len(TraceOf(p, k)) :
        \/ TraceOf(p, k)[i].label = AttemptLabels[3]
        \/ TraceOf(p, k)[i].extra # <<>>

\* C33: after a lock-cleanup retry the resync decision is taken on the
\* retry alone: for every completed pair with a retry, the retry is the
\* pair's second attempt and carries no flag; with auto_resync a --resync
\* attempt follows (as the third and last attempt, and no note) exactly
\* when the retry exited non-zero with a recovery-signal phrase in its own
\* output; without auto_resync the note is written, and no attempt
\* follows, exactly in that case; whatever the first attempt's output
\* held, a retry without the signal is followed by neither.
C33_DecisionOnRetry ==
    \A p \in Procs : \A k \in PairsDone(p) :
        Retried(p, k) =>
            LET t == TraceOf(p, k)
            IN  /\ t[1].label = AttemptLabels[1]
                /\ t[1].code # 0
                /\ t[2].extra = <<>>
                /\ Len(t) <= 3
                /\ (Resynced(p, k) \/ HasNote(p, k)) <=> FailedWithSignal(t[2])
                /\ Resynced(p, k) <=>
                        (cfg[p].auto_resync /\ FailedWithSignal(t[2]))
                /\ Resynced(p, k) =>
                        /\ Len(t) = 3
                        /\ IsResyncAttempt(t[3])
                /\ ~Resynced(p, k) => Len(t) = 2

\* the first attempt of a completed pair failed with a recovery-signal
\* phrase, the lock-cleanup retry failed without one, and nothing followed
C33_Witness ==
    \E p \in Procs : \E k \in PairsDone(p) :
        /\ Retried(p, k)
        /\ FailedWithSignal(TraceOf(p, k)[1])
        /\ TraceOf(p, k)[2].code # 0
        /\ ~FailedWithSignal(TraceOf(p, k)[2])
        /\ Len(TraceOf(p, k)) = 2
        /\ ~HasNote(p, k)


\* the pid the lock file records, if it records one
Recorded == ParseU32(Trim(sharedLock.content))

\* C35: the drop of p's guard deletes the lock file only while the file
\* still records p's pid; in particular it never deletes a lock file that
\* records a different process that is alive, whatever the interleaving
\* of the acquires and releases of the processes.
C35_ReleaseOwnLockOnly ==
    [][\A p \in Procs :
        (guard[p] = "held" /\ guard'[p] = "dropped"
            /\ sharedLock.exists /\ ~sharedLock'.exists)
        => ~(/\ Recorded.ok
             /\ Recorded.val # PidOf(p)
             /\ ProcessLive(Recorded.val))]_vars


\* C34: detect_running deletes the lock file only when the pid it records
\* is dead: whatever the interleaving with a LockGuard::acquire of another
\* process, the file it deletes does not record a live process.
C34_DeletesOnlyDeadLock ==
    [][(applet.pos = "detect_remove" /\ applet'.pos = "idle"
            /\ sharedLock.exists)
        => ~RecordsLivePid(sharedLock.content)]_vars


\* C36: in every state the applet reaches by SyncNow, Refresh, SyncLogTick
\* and SyncFinished messages beside the runs of another process,
\* manual_syncing implies syncing, a task in flight implies manual_syncing
\* and at most one task is in flight; a task is started, and manual_syncing
\* set, only by a step taken while syncing was false; and the step that
\* handles SyncFinished leaves manual_syncing false.
C36_AppletSyncState ==
    /\ [](/\ applet.manual_syncing => applet.syncing
          /\ applet.inflight <= 1
          /\ applet.inflight = 1 <=> applet.task = "spawned"
          /\ applet.task # "none" <=> applet.manual_syncing)
    /\ [][/\ applet'.inflight > applet.inflight =>
                /\ ~applet.syncing
                /\ applet.inflight = 0
                /\ applet.task = "none"
          /\ (applet'.manual_syncing /\ ~applet.manual_syncing) =>
                /\ ~applet.syncing
                /\ applet'.inflight = 1
          /\ (applet.task = "done" /\ applet'.task = "none") =>
                ~applet'.manual_syncing]_vars

\* a manual sync has finished and the applet, idle, shows a sync all the
\* same because the lock file records the live process of another run: a
\* SyncNow received now is ignored
C36_Witness ==
    /\ notified.via = "applet"
    /\ applet.pos = "idle"
    /\ applet.task = "none"
    /\ applet.syncing
    /\ ~applet.manual_syncing
    /\ sharedLock.exists
    /\ RecordsLivePid(sharedLock.content)


PathsPlanned == call.fn = "run_job_paths"

\* C38: for every configuration validate_config accepts, the run executes
\* at least one pair and every executed pair resolves to a non-empty local
\* path and a non-empty remote, neither of them made of whitespace only.
C38_NoEmptyPath ==
    (PathsPlanned /\ call.ret.accepted) =>
        /\ Len(call.ret.paths) >= 1
        /\ \A i \in 1..Len(call.ret.paths) :
                /\ call.ret.paths[i][1] # <<>>
                /\ call.ret.paths[i][2] # <<>>
                /\ Trim(call.ret.paths[i][1]) # <<>>
                /\ Trim(call.ret.paths[i][2]) # <<>>

\* an accepted job whose base local path is blank and whose base remote is
\* set, with two pairs: the first leaves its remote to the base, the second
\* names a suffix of it
C38_Witness ==
    /\ PathsPlanned
    /\ call.ret.accepted
    /\ Blank(call.arg.local_path)
    /\ Len(call.arg.pairs) = 2
    /\ call.arg.pairs[1].remote = <<>>
    /\ call.arg.pairs[2].remote = <<"a">>
    /\ call.ret.paths[1][2] = call.arg.remote
    /\ call.ret.paths[2][2] = call.arg.remote \o <<"a">>


\* p and q run different jobs whose lock paths are the same file
ShareLock(p, q) ==
    /\ p # q
    /\ cfg[p].name # cfg[q].name
    /\ lock_path(cfg[p]) = lock_path(cfg[q])

\* C39: jobs that leave lock_file unset or blank share the default lock
\* path: while a run of one job holds the lock, a run of another job with
\* the same lock path that comes to check the lock is skipped with the
\* already-running result.
C39_SharedLockSkips ==
    [][\A p, q \in Procs :
        (ShareLock(p, q) /\ Holding(q)
            /\ pc[p] = "acquire" /\ pc'[p] # "acquire")
        => /\ pc'[p] = "returned"
           /\ result'[p].kind = "Ok"
           /\ result'[p].exit_code = 0
           /\ \E r \in Procs : result'[p].stderr = AlreadyRunningText(PidOf(r))
           /\ guard'[p] = "none"]_vars

\* a job with a lock path of its own and a job on the default path hold
\* their locks at once, each with its pid in its own lock file
C39_Witness ==
    \E p, q \in Procs :
        /\ cfg[p].name # cfg[q].name
        /\ lock_path(cfg[p]) = DefaultLockPath
        /\ lock_path(cfg[q]) = OwnLockPath
        /\ Holding(p) /\ Holding(q)
        /\ lockFile[DefaultLockPath] = FileWith(PidLine(PidOf(p)))
        /\ lockFile[OwnLockPath] = FileWith(PidLine(PidOf(q)))
====
